---- MODULE Spec2Model ----
(***************************************************************************)
(* A model of the Reader desktop bridge (src-tauri/src/main.rs): the path  *)
(* resolver, the source registry, the access guard, the content loader and *)
(* the manifest exporter/importer, over a small fixed filesystem.          *)
(*                                                                         *)
(* A file name is a sequence of one-character strings, a path is a record  *)
(* [abs, segs] of its components, so that component-wise and string-wise   *)
(* comparisons of paths differ as they do in the program.                  *)
(***************************************************************************)
EXTENDS Naturals, Sequences, FiniteSets, TLC

(***************************************************************************)
(* Names, paths and strings                                                *)
(***************************************************************************)

DotDot == <<".", ".">>

nLib == <<"l">>
nBk == <<"b", "k">>
nBk2 == <<"b", "k", "2">>
nEm == <<"e", "m">>
nLn == <<"l", "n">>
nSec == <<"s", "c">>
nZz == <<"z", "z">>
nATxt == <<"a", ".", "t", "x", "t">>
nBPdf == <<"b", ".", "P", "D", "F">>
nBTxt == <<"b", ".", "t", "x", "t">>
nCEpub == <<"c", ".", "e", "p", "u", "b">>
nCTxt == <<"c", ".", "t", "x", "t">>
nSTxt == <<"s", ".", "t", "x", "t">>
nNotes == <<"n", ".", "m", "d">>
nMab == <<"m", "_", "a", "-", "b", ".", "t", "x", "t">>

AbsPath(segs) == [abs |-> TRUE, segs |-> segs]

RelPath(segs) == [abs |-> FALSE, segs |-> segs]

RootPath == AbsPath(<<>>)

\* Option<PathBuf>
SomePath(p) == [ok |-> TRUE, path |-> p]

NoPath == [ok |-> FALSE, path |-> RootPath]

IsPrefix(s, t) == Len(s) <= Len(t) /\ SubSeq(t, 1, Len(s)) = s

RECURSIVE JoinNames(_)
JoinNames(segs) ==
    IF segs = <<>> THEN <<>>
    ELSE IF Len(segs) = 1 THEN Head(segs)
    ELSE Head(segs) \o <<"/">> \o JoinNames(Tail(segs))

\* Path::to_string_lossy: the path as a string (a sequence of characters).
PathString(p) == (IF p.abs THEN <<"/">> ELSE <<>>) \o JoinNames(p.segs)

\* PathBuf::join: an absolute argument replaces the base.
PathJoin(base, p) == IF p.abs THEN p ELSE [abs |-> base.abs, segs |-> base.segs \o p.segs]

\* Path::file_name: the last component, none for the root or a path ending in "..".
HasFileName(p) == p.segs # <<>> /\ p.segs[Len(p.segs)] # DotDot

FileName(p) == p.segs[Len(p.segs)]

\* Path::parent
PathParent(p) == [abs |-> p.abs, segs |-> SubSeq(p.segs, 1, Len(p.segs) - 1)]

\* The position of the last '.' of a name that splits stem and extension: 0 when
\* there is none, or when the only one is the leading character (".profile").
LastDot(name) ==
    LET dots == {i \in 2..Len(name) : name[i] = "."}
    IN IF dots = {} THEN 0 ELSE CHOOSE i \in dots : \A j \in dots : j <= i

\* u8::to_ascii_lowercase, on the characters of this model's file names.
LowerChar(c) ==
    CASE c = "P" -> "p"
      [] c = "D" -> "d"
      [] c = "F" -> "f"
      [] OTHER -> c

ToAsciiLowercase(s) == [i \in 1..Len(s) |-> LowerChar(s[i])]

\* Path::extension
HasExtension(p) == HasFileName(p) /\ LastDot(FileName(p)) > 0

Extension(p) == SubSeq(FileName(p), LastDot(FileName(p)) + 1, Len(FileName(p)))

\* Path::file_stem
FileStem(p) ==
    IF LastDot(FileName(p)) > 0
    THEN SubSeq(FileName(p), 1, LastDot(FileName(p)) - 1)
    ELSE FileName(p)

\* Path::with_extension
WithExtension(p, ext) ==
    [abs |-> p.abs,
     segs |-> SubSeq(p.segs, 1, Len(p.segs) - 1) \o <<FileStem(p) \o <<".">> \o ext>>]

ExtTxt == <<"t", "x", "t">>

ExtPdf == <<"p", "d", "f">>

ExtEpub == <<"e", "p", "u", "b">>

SUPPORTED_BOOK_EXTENSIONS == {ExtPdf, ExtEpub, ExtTxt}

(***************************************************************************)
(* The filesystem                                                          *)
(***************************************************************************)

Dir == [kind |-> "dir", target |-> RootPath]

File == [kind |-> "file", target |-> RootPath]

Link(t) == [kind |-> "link", target |-> t]

\*  /l            the parent of the library folders; also the working directory
\*  /l/bk         a.txt, b.PDF, b.txt -> /sc/s.txt
\*  /l/bk2        c.epub, c.txt, n.md, m_a-b.txt
\*  /l/em         an empty folder
\*  /l/ln         -> bk
\*  /sc           s.txt: a folder that no input ever registers
FsNodes ==
    (<<>> :> Dir)
    @@ (<<nLib>> :> Dir)
    @@ (<<nLib, nBk>> :> Dir)
    @@ (<<nLib, nBk, nATxt>> :> File)
    @@ (<<nLib, nBk, nBPdf>> :> File)
    @@ (<<nLib, nBk, nBTxt>> :> Link(AbsPath(<<nSec, nSTxt>>)))
    @@ (<<nLib, nBk2>> :> Dir)
    @@ (<<nLib, nBk2, nCEpub>> :> File)
    @@ (<<nLib, nBk2, nCTxt>> :> File)
    @@ (<<nLib, nBk2, nNotes>> :> File)
    @@ (<<nLib, nBk2, nMab>> :> File)
    @@ (<<nLib, nEm>> :> Dir)
    @@ (<<nLib, nLn>> :> Link(RelPath(<<nBk>>)))
    @@ (<<nSec>> :> Dir)
    @@ (<<nSec, nSTxt>> :> File)

\* std::env::current_dir()
Cwd == AbsPath(<<nLib>>)

\* The kernel's bound on the symbolic links followed in one resolution.
MaxLinks == 4

VARIABLES
    removed,       \* the directories deleted since the start, subtrees included
    registry,      \* what load_sources returns now: a sequence of LibrarySource
    sourcesFile,   \* the characters of library-sources.json (none: no file yet)
    manifestFile,  \* the manifest file written by the last export
    exportedFrom,  \* the registry that export was made from
    last,          \* the last call: its arguments, its result and what it touched
    imp,           \* the import call in progress, when it is followed step by step
    writers,       \* the registry mutations in progress, one per thread
    lastWrite,     \* the list handed to the write that completed last
    keyring,       \* the secret service: the password stored under each account
    keyCall,       \* the last secure_keys call: arguments, result, service calls
    corpus_cache,  \* AppState.corpus_cache: the article list under each cached key
    corpusFiles,   \* the corpus files of the candidate directories
    lock,          \* the holder of the corpus_cache mutex (0: free)
    workers,       \* the corpus calls in progress, one per thread
    inserts        \* the cache.insert calls made so far, in order

vars == <<removed, registry, sourcesFile, manifestFile, exportedFrom, last, imp,
          writers, lastWrite, keyring, keyCall, corpus_cache, corpusFiles, lock, workers,
          inserts>>

libVars == <<removed, registry, sourcesFile, manifestFile, exportedFrom, last, imp>>

raceVars == <<writers, lastWrite>>

keyVars == <<keyring, keyCall>>

corpusVars == <<corpus_cache, corpusFiles, lock, workers, inserts>>

\* What the library calls leave alone.
restVars == <<raceVars, keyVars, corpusVars>>

\* The nodes (by canonical location) that exist now.
Live == {n \in DOMAIN FsNodes : \A d \in removed : ~IsPrefix(d, n)}

\* Path resolution as the kernel does it, from the existing directory cur: ".."
\* goes to the parent, a symbolic link is replaced by its target, every component
\* but the last must lead to a directory.
RECURSIVE Walk(_, _, _)
Walk(cur, segs, fuel) ==
    IF segs = <<>> THEN SomePath(AbsPath(cur))
    ELSE IF FsNodes[cur].kind # "dir" THEN NoPath
    ELSE IF Head(segs) = DotDot
         THEN Walk(SubSeq(cur, 1, Len(cur) - 1), Tail(segs), fuel)
    ELSE LET child == Append(cur, Head(segs))
         IN IF child \notin Live THEN NoPath
            ELSE IF FsNodes[child].kind = "link"
                 THEN IF fuel = 0 THEN NoPath
                      ELSE LET t == FsNodes[child].target
                           IN Walk(IF t.abs THEN <<>> ELSE cur,
                                   t.segs \o Tail(segs), fuel - 1)
            ELSE Walk(child, Tail(segs), fuel)

\* fs::canonicalize of an absolute path
Canonicalize(p) == Walk(<<>>, p.segs, MaxLinks)

\* Path::exists, fs::metadata(..).is_dir(), Path::is_file: all follow links.
PathExists(p) == Canonicalize(p).ok

is_directory(p) ==
    LET c == Canonicalize(p) IN c.ok /\ FsNodes[c.path.segs].kind = "dir"

IsFile(p) ==
    LET c == Canonicalize(p) IN c.ok /\ FsNodes[c.path.segs].kind = "file"

resolve_absolute_path(input_path) ==
    IF input_path.abs THEN input_path ELSE PathJoin(Cwd, input_path)

normalize_path(input_path) == Canonicalize(resolve_absolute_path(input_path))

normalize_path_for_compare(input_path) ==
    LET absolute == resolve_absolute_path(input_path)
        c == Canonicalize(absolute)
    IN IF c.ok THEN c.path ELSE absolute

(***************************************************************************)
(* Strings: order and trimming                                             *)
(***************************************************************************)

\* The byte value of the characters the model's names are made of.
Ascii(c) ==
    CASE c = " " -> 32 [] c = "-" -> 45 [] c = "." -> 46 [] c = "/" -> 47
      [] c = "2" -> 50 [] c = "A" -> 65 [] c = "B" -> 66 [] c = "D" -> 68
      [] c = "F" -> 70 [] c = "P" -> 80 [] c = "_" -> 95 [] c = "a" -> 97
      [] c = "b" -> 98 [] c = "c" -> 99 [] c = "d" -> 100 [] c = "e" -> 101
      [] c = "i" -> 105 [] c = "k" -> 107 [] c = "l" -> 108 [] c = "m" -> 109
      [] c = "n" -> 110 [] c = "p" -> 112 [] c = "r" -> 114 [] c = "s" -> 115
      [] c = "t" -> 116 [] c = "u" -> 117 [] c = "x" -> 120 [] c = "y" -> 121
      [] c = "z" -> 122

\* str::cmp: bytewise lexicographic order.
RECURSIVE StrLess(_, _)
StrLess(s, t) ==
    IF t = <<>> THEN FALSE
    ELSE IF s = <<>> THEN TRUE
    ELSE IF Head(s) = Head(t) THEN StrLess(Tail(s), Tail(t))
    ELSE Ascii(Head(s)) < Ascii(Head(t))

\* char::is_whitespace, on the characters of this model's strings.
Whitespace == {" ", "\t"}

\* str::trim
RECURSIVE TrimStart(_)
TrimStart(s) ==
    IF s # <<>> /\ Head(s) \in Whitespace THEN TrimStart(Tail(s)) ELSE s

RECURSIVE TrimEnd(_)
TrimEnd(s) ==
    IF s # <<>> /\ s[Len(s)] \in Whitespace
    THEN TrimEnd(SubSeq(s, 1, Len(s) - 1)) ELSE s

Trim(s) == TrimEnd(TrimStart(s))

(***************************************************************************)
(* Access guard                                                            *)
(***************************************************************************)

Ok(v) == [ok |-> TRUE, err |-> "", value |-> v]

Err(e) == [ok |-> FALSE, err |-> e, value |-> <<>>]

load_sources == registry

\* A containment test on the paths as strings.
is_within_root_ByString(target_path, root_path) ==
    target_path = root_path \/ IsPrefix(PathString(root_path), PathString(target_path))

\* Path::starts_with compares whole components.
is_within_root(target_path, root_path) ==
    target_path = root_path \/ IsPrefix(root_path.segs, target_path.segs)

\* Roots kept from before the registry mutation that has just been made.
get_allowed_library_roots_Stale ==
    LET sources == IF last.op \in {"add", "remove", "import"} THEN last.pre ELSE load_sources
        ok == SelectSeq(sources, LAMBDA source : normalize_path(source.path).ok)
    IN [i \in 1..Len(ok) |-> normalize_path(ok[i].path).path]

\* The canonical roots, in registry order; a source that does not resolve is dropped.
get_allowed_library_roots ==
    LET ok == SelectSeq(load_sources, LAMBDA source : normalize_path(source.path).ok)
    IN [i \in 1..Len(ok) |-> normalize_path(ok[i].path).path]

\* The guard with the registry looked at before the requested path.
resolve_allowed_library_path_RootsFirst(requested_path) ==
    LET normalized == normalize_path(requested_path)
        roots == get_allowed_library_roots
    IN IF roots = <<>> THEN Err("No library sources configured")
       ELSE IF ~normalized.ok THEN Err("Path does not exist")
       ELSE IF ~\E i \in 1..Len(roots) : is_within_root(normalized.path, roots[i])
            THEN Err("Path is outside configured library sources")
       ELSE Ok(normalized.path)

resolve_allowed_library_path(requested_path) ==
    LET normalized == normalize_path(requested_path)
        roots == get_allowed_library_roots
    IN IF ~normalized.ok THEN Err("Path does not exist")
       ELSE IF roots = <<>> THEN Err("No library sources configured")
       ELSE IF ~\E i \in 1..Len(roots) : is_within_root(normalized.path, roots[i])
            THEN Err("Path is outside configured library sources")
       ELSE Ok(normalized.path)

(***************************************************************************)
(* Library scanner                                                         *)
(***************************************************************************)

\* The regular files WalkDir visits from root_path without following links: the
\* nodes below it in the tree, a symbolic link being neither followed nor a file.
ScannedFiles(root_path) ==
    {n \in Live : /\ IsPrefix(root_path.segs, n)
                  /\ FsNodes[n].kind = "file"
                  /\ HasExtension(AbsPath(n))
                  /\ ToAsciiLowercase(Extension(AbsPath(n))) \in SUPPORTED_BOOK_EXTENSIONS}

\* Path::strip_prefix, for a path that starts with the root
StripPrefix(p, root_path) ==
    RelPath(SubSeq(p.segs, Len(root_path.segs) + 1, Len(p.segs)))

\* Option<String>: the root-relative parent, none when the file is at the root
\* (or is the root itself).
ParentDirOf(n, root_path) ==
    LET rel == StripPrefix(AbsPath(n), root_path)
    IN IF Len(rel.segs) <= 1 THEN <<>> ELSE PathString(PathParent(rel))

LibraryItem(n, root_path) ==
    [name |-> n[Len(n)],
     path |-> AbsPath(n),
     item_type |-> ToAsciiLowercase(Extension(AbsPath(n))),
     parent_dir |-> ParentDirOf(n, root_path)]

ItemBefore(a, b) ==
    \/ StrLess(a.parent_dir, b.parent_dir)
    \/ a.parent_dir = b.parent_dir /\ StrLess(a.name, b.name)

RECURSIVE SortItems(_)
SortItems(items) ==
    IF items = {} THEN <<>>
    ELSE LET first == CHOOSE a \in items : \A b \in items \ {a} : ItemBefore(a, b)
         IN <<first>> \o SortItems(items \ {first})

\* The items sorted by (parent_dir, name); metadata (size, modification time) and
\* the frontmatter flag are left out: nothing below reads them.
scan_directory(root_path) ==
    SortItems({LibraryItem(n, root_path) : n \in ScannedFiles(root_path)})

(***************************************************************************)
(* Content loader                                                          *)
(***************************************************************************)

\* What a call did, in order: the guard, then each directory walk or file read.
Guarded(p) == [act |-> "guard", path |-> p]

Walked(p) == [act |-> "walk", path |-> p]

ReadFile(p) == [act |-> "read", path |-> p]

Outcome(result, trace) == [res |-> result, trace |-> trace]

ReplaceChar(s, from, to) == [i \in 1..Len(s) |-> IF s[i] = from THEN to ELSE s[i]]

format_title_from_path(file_path) ==
    IF HasFileName(file_path)
    THEN ReplaceChar(FileStem(file_path), "-", " ")
    ELSE <<"U", "n", "t", "i", "t", "l", "e", "d">>

\* fs::read_to_string follows links: the content is that of the file the path
\* leads to, which stands here for the text read.
read_text_file(file_path) ==
    IF IsFile(file_path) THEN Ok(Canonicalize(file_path).path)
    ELSE Err("Failed to read file")

\* asset_base_url (the parent directory as a file: URL) is left out.
open_text_content(requested_path, content_path) ==
    LET content == read_text_file(content_path)
    IN IF ~content.ok THEN Outcome(content, <<ReadFile(content_path)>>)
       ELSE Outcome(Ok([title |-> format_title_from_path(requested_path),
                        content |-> content.value,
                        source_path |-> PathString(requested_path)]),
                    <<ReadFile(content_path)>>)

\* A listing that walks the requested directory before it asks the guard.
library_list_books_WalkFirst(dir_path) ==
    LET allowed_path == resolve_allowed_library_path(dir_path)
        walked == scan_directory(resolve_absolute_path(dir_path))
    IN IF ~allowed_path.ok
       THEN Outcome(allowed_path, <<Walked(dir_path), Guarded(dir_path)>>)
       ELSE Outcome(Ok(walked), <<Walked(dir_path), Guarded(dir_path)>>)

library_list_books(dir_path) ==
    LET allowed_path == resolve_allowed_library_path(dir_path)
    IN IF ~allowed_path.ok THEN Outcome(allowed_path, <<Guarded(dir_path)>>)
       ELSE Outcome(Ok(scan_directory(allowed_path.value)),
                    <<Guarded(dir_path), Walked(allowed_path.value)>>)

library_open_book(file_path) ==
    LET allowed_path == resolve_allowed_library_path(file_path)
        guard == <<Guarded(file_path)>>
    IN IF ~allowed_path.ok THEN Outcome(allowed_path, guard)
       ELSE IF ~HasExtension(allowed_path.value)
            THEN Outcome(Err("Unsupported file type"), guard)
       ELSE LET extension == ToAsciiLowercase(Extension(allowed_path.value))
                sidecar_path == WithExtension(allowed_path.value, ExtTxt)
            IN IF extension \notin SUPPORTED_BOOK_EXTENSIONS
               THEN Outcome(Err("Unsupported file type: ext"), guard)
               ELSE IF extension = ExtTxt
                    THEN LET o == open_text_content(allowed_path.value, allowed_path.value)
                         IN Outcome(o.res, guard \o o.trace)
               ELSE IF PathExists(sidecar_path) /\ IsFile(sidecar_path)
                    THEN LET o == open_text_content(allowed_path.value, sidecar_path)
                         IN Outcome(o.res, guard \o o.trace)
               ELSE Outcome(Err("Unsupported file type: no normalized snapshot"), guard)

(***************************************************************************)
(* Source registry                                                         *)
(***************************************************************************)

LibrarySource(name, path) == [name |-> name, path |-> path]

\* The registry library_add_source saves and its result; save is true when it
\* reaches save_sources.
Saved(result, sources) == [res |-> result, save |-> TRUE, sources |-> sources]

NotSaved(result) == [res |-> result, save |-> FALSE, sources |-> registry]

\* An add that looks for the path as the caller wrote it among the stored paths.
library_add_source_RawCompare(source) ==
    LET normalized_path == normalize_path(source.path)
    IN IF ~normalized_path.ok THEN NotSaved(Err("Directory does not exist"))
       ELSE IF ~is_directory(normalized_path.path)
            THEN NotSaved(Err("Library source must be a directory"))
       ELSE LET sources == load_sources
                already_exists == \E i \in 1..Len(sources) : sources[i].path = source.path
                normalized_name ==
                    IF Trim(source.name) = <<>> THEN FileName(normalized_path.path)
                    ELSE Trim(source.name)
            IN IF already_exists THEN NotSaved(Ok(<<>>))
               ELSE Saved(Ok(<<>>),
                          Append(sources, LibrarySource(normalized_name, normalized_path.path)))

library_add_source(source) ==
    LET normalized_path == normalize_path(source.path)
    IN IF ~normalized_path.ok THEN NotSaved(Err("Directory does not exist"))
       ELSE IF ~is_directory(normalized_path.path)
            THEN NotSaved(Err("Library source must be a directory"))
       ELSE LET sources == load_sources
                target_path == normalize_path_for_compare(normalized_path.path)
                already_exists ==
                    \E i \in 1..Len(sources) :
                        normalize_path_for_compare(sources[i].path) = target_path
                fallback_name ==
                    IF HasFileName(normalized_path.path)
                    THEN FileName(normalized_path.path)
                    ELSE <<"L", "i", "b", "r", "a", "r", "y">>
                normalized_name ==
                    IF Trim(source.name) = <<>> THEN fallback_name ELSE Trim(source.name)
            IN IF already_exists THEN NotSaved(Ok(<<>>))
               ELSE Saved(Ok(<<>>),
                          Append(sources, LibrarySource(normalized_name, normalized_path.path)))

\* A removal that identifies the source by its resolved path only: a path
\* that does not resolve matches nothing.
library_remove_source_ResolvedOnly(source_path) ==
    LET target == normalize_path(source_path)
    IN Saved(Ok(<<>>),
             SelectSeq(load_sources,
                       LAMBDA source : ~target.ok \/ normalize_path(source.path) # target))

library_remove_source(source_path) ==
    LET target == normalize_path_for_compare(source_path)
    IN Saved(Ok(<<>>),
             SelectSeq(load_sources,
                       LAMBDA source : normalize_path_for_compare(source.path) # target))

(***************************************************************************)
(* Manifest exporter                                                       *)
(***************************************************************************)

LIBRARY_MANIFEST_SCHEMA == "reader-library-manifest"

LIBRARY_MANIFEST_VERSION == 1

\* to_string_lossy().replace('\\', "/")
normalize_manifest_path(path) == ReplaceChar(PathString(path), "\\", "/")

\* Path::new(string): the components between separators; empty components and
\* "." are dropped.
RECURSIVE SplitSegs(_, _)
SplitSegs(s, cur) ==
    LET done == IF cur = <<>> \/ cur = <<".">> THEN <<>> ELSE <<cur>>
    IN IF s = <<>> THEN done
       ELSE IF Head(s) = "/" THEN done \o SplitSegs(Tail(s), <<>>)
       ELSE SplitSegs(Tail(s), Append(cur, Head(s)))

ParsePath(s) == [abs |-> s # <<>> /\ Head(s) = "/", segs |-> SplitSegs(s, <<>>)]

source_root_name(source_path) ==
    LET resolved == resolve_absolute_path(source_path)
    IN IF HasFileName(resolved) THEN FileName(resolved)
       ELSE <<"l", "i", "b", "r", "a", "r", "y">>

\* Option<String>
SomeStr(s) == [some |-> TRUE, str |-> s]

NoStr == [some |-> FALSE, str |-> <<>>]

resolve_normalized_text_snapshot(root_path, file_path, entry_type) ==
    LET sidecar == WithExtension(file_path, ExtTxt)
    IN IF entry_type = ExtTxt
       THEN SomeStr(normalize_manifest_path(StripPrefix(file_path, root_path)))
       ELSE IF ~PathExists(sidecar) \/ ~IsFile(sidecar) THEN NoStr
       ELSE SomeStr(normalize_manifest_path(StripPrefix(sidecar, root_path)))

ManifestEntry(source, root_path, item) ==
    [source_name |-> source.name,
     relative_path |-> normalize_manifest_path(StripPrefix(item.path, root_path)),
     entry_type |-> item.item_type,
     normalized_text_relative_path |->
         resolve_normalized_text_snapshot(root_path, item.path, item.item_type)]

\* The entries of one source: none when its root does not resolve; an item that
\* is the root itself is skipped.
EntriesOfSource(source) ==
    LET root_path == normalize_path(source.path)
    IN IF ~root_path.ok THEN <<>>
       ELSE LET items == SelectSeq(scan_directory(root_path.path),
                                   LAMBDA item : item.path # root_path.path)
            IN [i \in 1..Len(items) |-> ManifestEntry(source, root_path.path, items[i])]

RECURSIVE EntriesOfSources(_)
EntriesOfSources(sources) ==
    IF sources = <<>> THEN <<>>
    ELSE EntriesOfSource(Head(sources)) \o EntriesOfSources(Tail(sources))

\* exported_at (the time of the export) is left out.
build_library_manifest(sources) ==
    [schema |-> LIBRARY_MANIFEST_SCHEMA,
     version |-> LIBRARY_MANIFEST_VERSION,
     sources |-> [i \in 1..Len(sources) |->
                     [name |-> sources[i].name,
                      root_name |-> source_root_name(sources[i].path)]],
     entries |-> EntriesOfSources(sources)]

(***************************************************************************)
(* Manifest importer                                                       *)
(***************************************************************************)

is_manifest_entry_type(value) == value = ExtPdf \/ value = ExtEpub \/ value = ExtTxt

\* A validation that takes a field for empty only when it has no character at all.
load_library_manifest_NoTrim(parsed) ==
    IF parsed.schema # LIBRARY_MANIFEST_SCHEMA \/ parsed.version # LIBRARY_MANIFEST_VERSION
    THEN Err("Unsupported library manifest format")
    ELSE IF \E i \in 1..Len(parsed.sources) :
                \/ parsed.sources[i].name = <<>>
                \/ parsed.sources[i].root_name = <<>>
         THEN Err("Invalid manifest source entry")
    ELSE IF \E i \in 1..Len(parsed.entries) :
                \/ parsed.entries[i].source_name = <<>>
                \/ parsed.entries[i].relative_path = <<>>
                \/ ~is_manifest_entry_type(parsed.entries[i].entry_type)
         THEN Err("Invalid manifest content entry")
    ELSE Ok(parsed)

\* The manifest file has been read and parsed as JSON: parsed is its value.
load_library_manifest(parsed) ==
    IF parsed.schema # LIBRARY_MANIFEST_SCHEMA \/ parsed.version # LIBRARY_MANIFEST_VERSION
    THEN Err("Unsupported library manifest format")
    ELSE IF \E i \in 1..Len(parsed.sources) :
                \/ Trim(parsed.sources[i].name) = <<>>
                \/ Trim(parsed.sources[i].root_name) = <<>>
         THEN Err("Invalid manifest source entry")
    ELSE IF \E i \in 1..Len(parsed.entries) :
                \/ Trim(parsed.entries[i].source_name) = <<>>
                \/ Trim(parsed.entries[i].relative_path) = <<>>
                \/ ~is_manifest_entry_type(parsed.entries[i].entry_type)
         THEN Err("Invalid manifest content entry")
    ELSE Ok(parsed)

Message(text, arg) == [text |-> text, arg |-> arg]

SourceResult(source, status, resolved_path, message) ==
    [source_name |-> source.name, status |-> status,
     resolved_path |-> resolved_path, message |-> message]

\* An import that starts with no known path.
ImportStart_KnowsNothing ==
    [updated_sources |-> load_sources, known_paths |-> {},
     added |-> 0, existing |-> 0, missing |-> 0, results |-> <<>>]

\* The local state of import_library_manifest when it enters its loop.
ImportStart ==
    [updated_sources |-> load_sources,
     known_paths |-> {normalize_path_for_compare(load_sources[i].path) :
                          i \in 1..Len(load_sources)},
     added |-> 0, existing |-> 0, missing |-> 0, results |-> <<>>]

\* A resolution that falls back to the shared root for any manifest.
ResolveSource_AlwaysFallback(manifest, shared_root, source) ==
    LET expected_root == PathJoin(shared_root, ParsePath(source.root_name))
    IN IF is_directory(expected_root) THEN SomePath(Canonicalize(expected_root).path)
       ELSE SomePath(shared_root)

\* A resolution that takes the shared root for a single source before it looks
\* for the named folder.
ResolveSource_SharedRootFirst(manifest, shared_root, source) ==
    LET expected_root == PathJoin(shared_root, ParsePath(source.root_name))
    IN IF Len(manifest.sources) = 1 THEN SomePath(shared_root)
       ELSE IF is_directory(expected_root) THEN SomePath(Canonicalize(expected_root).path)
       ELSE NoPath

\* Option<PathBuf>: the folder a manifest source resolves to.
ResolveSource(manifest, shared_root, source) ==
    LET expected_root == PathJoin(shared_root, ParsePath(source.root_name))
    IN IF is_directory(expected_root) THEN SomePath(Canonicalize(expected_root).path)
       ELSE IF Len(manifest.sources) = 1 THEN SomePath(shared_root)
       ELSE NoPath

\* One turn of the loop over manifest.sources.
ImportSource(acc, manifest, shared_root, source) ==
    LET resolved_path == ResolveSource(manifest, shared_root, source)
        entries_for_source ==
            SelectSeq(manifest.entries, LAMBDA entry : entry.source_name = source.name)
        has_matching_file ==
            \E i \in 1..Len(entries_for_source) :
                PathExists(PathJoin(resolved_path.path,
                                    ParsePath(entries_for_source[i].relative_path)))
    IN IF ~resolved_path.ok
       THEN [acc EXCEPT
               !.missing = @ + 1,
               !.results = Append(@, SourceResult(source, "missing", NoPath,
                   Message("Missing folder under shared root", source.root_name)))]
       ELSE IF entries_for_source # <<>> /\ ~has_matching_file
       THEN [acc EXCEPT
               !.missing = @ + 1,
               !.results = Append(@, SourceResult(source, "missing", resolved_path,
                   Message("No manifest files found under resolved folder", <<>>)))]
       ELSE IF resolved_path.path \in acc.known_paths
       THEN [acc EXCEPT
               !.existing = @ + 1,
               !.results = Append(@, SourceResult(source, "existing", resolved_path,
                   Message("Source already configured", <<>>)))]
       ELSE [acc EXCEPT
               !.updated_sources = Append(@, LibrarySource(source.name, resolved_path.path)),
               !.known_paths = @ \cup {resolved_path.path},
               !.added = @ + 1,
               !.results = Append(@, SourceResult(source, "added", resolved_path,
                   Message("Source added", <<>>)))]

RECURSIVE ImportLoop(_, _, _, _)
ImportLoop(acc, manifest, shared_root, i) ==
    IF i > Len(manifest.sources) THEN acc
    ELSE ImportLoop(ImportSource(acc, manifest, shared_root, manifest.sources[i]),
                    manifest, shared_root, i + 1)

\* A summary that lists the resolved sources only.
ImportSummary_ResolvedOnly(acc) ==
    [added |-> acc.added, existing |-> acc.existing, missing |-> acc.missing,
     results |-> SelectSeq(acc.results, LAMBDA r : r.resolved_path.ok)]

ImportSummary(acc) ==
    [added |-> acc.added, existing |-> acc.existing,
     missing |-> acc.missing, results |-> acc.results]

import_library_manifest(manifest, shared_root_path) ==
    LET shared_root == normalize_path(shared_root_path)
    IN IF ~shared_root.ok \/ ~is_directory(shared_root.path)
       THEN NotSaved(Err("Shared root is not a directory"))
       ELSE LET acc == ImportLoop(ImportStart, manifest, shared_root.path, 1)
            IN Saved(Ok(ImportSummary(acc)), acc.updated_sources)

\* After the two pickers: validate the manifest file, then import it.
library_import_manifest(manifest_file, shared_root_path) ==
    LET manifest == load_library_manifest(manifest_file)
    IN IF ~manifest.ok THEN NotSaved(manifest)
       ELSE import_library_manifest(manifest.value, shared_root_path)

(***************************************************************************)
(* The registry file: library-sources.json as characters. The JSON syntax  *)
(* is kept as its brackets: [ {name|path} {name|path} ].                   *)
(***************************************************************************)

RECURSIVE SourcesJson(_)
SourcesJson(sources) ==
    IF sources = <<>> THEN <<>>
    ELSE <<"{">> \o Head(sources).name \o <<"|">> \o PathString(Head(sources).path)
         \o <<"}">> \o SourcesJson(Tail(sources))

\* serde_json::to_string_pretty(sources)
to_string_pretty(sources) == <<"[">> \o SourcesJson(sources) \o <<"]">>

\* The first position of character c in s, 0 when there is none.
IndexOf(s, c) ==
    LET at == {i \in 1..Len(s) : s[i] = c}
    IN IF at = {} THEN 0 ELSE CHOOSE i \in at : \A j \in at : i <= j

\* The elements of the array, from the character after "[": an error for
\* anything but complete objects followed by "]" and the end of the text.
RECURSIVE ParseSources(_)
ParseSources(s) ==
    IF s = <<"]">> THEN Ok(<<>>)
    ELSE IF s = <<>> \/ Head(s) # "{" THEN Err("Invalid JSON")
    ELSE LET close == IndexOf(s, "}")
             body == SubSeq(s, 2, close - 1)
             bar == IndexOf(body, "|")
             rest == ParseSources(SubSeq(s, close + 1, Len(s)))
         IN IF close = 0 \/ bar = 0 THEN Err("Invalid JSON")
            ELSE IF ~rest.ok THEN rest
            ELSE Ok(<<LibrarySource(SubSeq(body, 1, bar - 1),
                                    ParsePath(SubSeq(body, bar + 1, Len(body))))>>
                    \o rest.value)

\* serde_json::from_str::<Vec<LibrarySource>>(raw)
from_str(raw) ==
    IF raw = <<>> \/ Head(raw) # "[" THEN Err("Invalid JSON") ELSE ParseSources(Tail(raw))

\* load_sources on a file of these characters: no file, an unreadable one or
\* one that does not parse give the empty list.
read_sources(raw) ==
    IF raw = <<>> THEN <<>>
    ELSE IF from_str(raw).ok THEN from_str(raw).value ELSE <<>>

\* fs::write is File::create, which empties the file, then write_all, which
\* writes the payload from offset 0 of the file as it is then.
WriteAll(content, payload) ==
    payload \o SubSeq(content, Len(payload) + 1, Len(content))

\* The file after a call that returns o: written whole when o reached save_sources.
FileAfter(o) == IF o.save THEN to_string_pretty(o.sources) ELSE sourcesFile

(***************************************************************************)
(* Secret store: the keyring entries of service SECURE_KEYRING_SERVICE. An *)
(* entry is addressed by its account, the key id; up tells whether the     *)
(* secret service answers the call or fails (no access, platform failure). *)
(***************************************************************************)

SUPPORTED_API_KEY_IDS == {"comprehension-gemini"}

SECURE_KEYRING_SERVICE == "com.cmf.reader"

\* The key ids callers pass, each an account the service could hold.
KeyIds == {"comprehension-gemini", "comprehension-gemini ", "Comprehension-Gemini", "openai"}

\* A call made to the secret service.
ServiceCall(act, account) ==
    [act |-> act, service |-> SECURE_KEYRING_SERVICE, account |-> account]

\* What a command returns, the service calls it made and the entries it leaves.
KeyOutcome(result, ops, ring) == [res |-> result, ops |-> ops, ring |-> ring]

\* Entry::get_password
get_password(account, up) ==
    IF ~up THEN Err("PlatformFailure")
    ELSE IF ~keyring[account].some THEN Err("NoEntry")
    ELSE Ok(keyring[account].str)

\* Entry::delete_credential
delete_credential(account, up) ==
    IF ~up THEN KeyOutcome(Err("PlatformFailure"), <<ServiceCall("delete", account)>>, keyring)
    ELSE IF ~keyring[account].some
         THEN KeyOutcome(Err("NoEntry"), <<ServiceCall("delete", account)>>, keyring)
    ELSE KeyOutcome(Ok(<<>>), <<ServiceCall("delete", account)>>,
                    [keyring EXCEPT ![account] = NoStr])

\* Entry::set_password
set_password(account, secret, up) ==
    IF ~up THEN KeyOutcome(Err("PlatformFailure"), <<ServiceCall("set", account)>>, keyring)
    ELSE KeyOutcome(Ok(<<>>), <<ServiceCall("set", account)>>,
                    [keyring EXCEPT ![account] = SomeStr(secret)])

\* A lookup that takes any key id for a supported one.
parse_api_key_id_AnyKey(input) == Ok(input)

parse_api_key_id(input) ==
    IF input \in SUPPORTED_API_KEY_IDS THEN Ok("comprehension-gemini")
    ELSE Err("Unsupported API key id")

is_secure_api_key_storage_available(up) ==
    LET got == get_password("comprehension-gemini", up)
    IN KeyOutcome(Ok(got.ok \/ got.err = "NoEntry"),
                  <<ServiceCall("get", "comprehension-gemini")>>, keyring)

get_secure_api_key(key_id, up) ==
    LET got == get_password(key_id, up)
        ops == <<ServiceCall("get", key_id)>>
    IN IF got.ok
       THEN LET normalized == Trim(got.value)
            IN IF normalized = <<>> THEN KeyOutcome(Ok(NoStr), ops, keyring)
               ELSE KeyOutcome(Ok(SomeStr(normalized)), ops, keyring)
       ELSE IF got.err = "NoEntry" THEN KeyOutcome(Ok(NoStr), ops, keyring)
       ELSE KeyOutcome(Err("Failed to read secure API key"), ops, keyring)

\* A set that stores whatever value it is given, trimmed.
set_secure_api_key_StoresBlank(key_id, value, up) ==
    IF value.some
    THEN LET set == set_password(key_id, Trim(value.str), up)
         IN IF ~set.res.ok
            THEN KeyOutcome(Err("Failed to save secure API key"), set.ops, set.ring)
            ELSE set
    ELSE LET del == delete_credential(key_id, up)
         IN IF del.res.ok \/ del.res.err = "NoEntry"
            THEN KeyOutcome(Ok(<<>>), del.ops, del.ring)
            ELSE KeyOutcome(Err("Failed to delete secure API key"), del.ops, del.ring)

set_secure_api_key(key_id, value, up) ==
    LET normalized ==
            IF value.some /\ Trim(value.str) # <<>> THEN SomeStr(Trim(value.str)) ELSE NoStr
    IN IF normalized.some
       THEN LET set == set_password(key_id, normalized.str, up)
            IN IF ~set.res.ok
               THEN KeyOutcome(Err("Failed to save secure API key"), set.ops, set.ring)
               ELSE set
       ELSE LET del == delete_credential(key_id, up)
            IN IF del.res.ok \/ del.res.err = "NoEntry"
               THEN KeyOutcome(Ok(<<>>), del.ops, del.ring)
               ELSE KeyOutcome(Err("Failed to delete secure API key"), del.ops, del.ring)

secure_keys_is_available(up) == is_secure_api_key_storage_available(up)

secure_keys_get(key_id, up) ==
    LET valid_key_id == parse_api_key_id(key_id)
    IN IF ~valid_key_id.ok THEN KeyOutcome(valid_key_id, <<>>, keyring)
       ELSE get_secure_api_key(valid_key_id.value, up)

secure_keys_set(key_id, value, up) ==
    LET valid_key_id == parse_api_key_id(key_id)
    IN IF ~valid_key_id.ok THEN KeyOutcome(valid_key_id, <<>>, keyring)
       ELSE set_secure_api_key(valid_key_id.value, value, up)

\* The values callers store: none, empty, blank, and keys with and without
\* whitespace around and inside them.
KeyValues ==
    {NoStr, SomeStr(<<>>), SomeStr(<<" ">>), SomeStr(<<"\t", " ">>),
     SomeStr(<<"k">>), SomeStr(<<" ", "k", "2", "\t">>), SomeStr(<<"k", " ", "2">>)}

\* No secure_keys call has been made; before is the call made before this one.
NoKeyCall ==
    [op |-> "none", key_id |-> "", value |-> NoStr, up |-> TRUE,
     res |-> Ok(<<>>), ops |-> <<>>, pre |-> [k \in KeyIds |-> NoStr],
     before |-> [op |-> "none", key_id |-> "", value |-> NoStr, ok |-> TRUE]]

(***************************************************************************)
(* Corpus cache. A corpus file is a sequence of lines, a line a sequence   *)
(* of characters; the JSON of an article is kept as {x}, x its title.      *)
(***************************************************************************)

CORPUS_FAMILIES == <<"wiki", "prose">>

CORPUS_TIERS == <<"easy", "medium", "hard">>

\* format!("{family}:{tier}")
corpus_key(family, tier) == <<family, tier>>

CorpusKeys ==
    {corpus_key(CORPUS_FAMILIES[i], CORPUS_TIERS[j]) :
        i \in 1..Len(CORPUS_FAMILIES), j \in 1..Len(CORPUS_TIERS)}

\* Option<Vec<CorpusArticle>>, Option<CorpusArticle>
SomeArticles(l) == [some |-> TRUE, list |-> l]

NoArticles == [some |-> FALSE, list |-> <<>>]

CorpusArticle(title) == [title |-> title]

SomeArticle(a) == [some |-> TRUE, article |-> a]

NoArticle == [some |-> FALSE, article |-> CorpusArticle("")]

\* The directories searched, in order: app data, resources, and two below the
\* working directory.
corpus_candidate_dirs ==
    <<"app_data/corpus", "resource/corpus",
      "cwd/scripts/prepare-corpus", "cwd/../scripts/prepare-corpus">>

\* corpus-{family}-{tier}.jsonl and the legacy corpus-{tier}.jsonl
CorpusFileName(family, tier) == [family |-> family, tier |-> tier]

LegacyFileName(tier) == [family |-> "", tier |-> tier]

CorpusPath(dir, name) == [dir |-> dir, name |-> name]

\* Option<PathBuf>
SomeCorpusPath(p) == [some |-> TRUE, at |-> p]

NoCorpusPath == [some |-> FALSE, at |-> CorpusPath("", LegacyFileName(""))]

\* What is at a path: nothing, something that cannot be read as text (a
\* directory, a file without read permission or that is not UTF-8), or text.
NoFile == [kind |-> "none", lines |-> <<>>]

Unreadable == [kind |-> "unreadable", lines |-> <<>>]

TextFile(lines) == [kind |-> "text", lines |-> lines]

ArticleLine(x) == <<"{", x, "}">>

\* Two articles with an empty line, a blank line and a malformed line between.
LinesA == <<ArticleLine("a"), <<>>, <<" ", "\t">>, <<"{", "x">>, <<" ">> \o ArticleLine("b")>>

\* Nothing that parses.
LinesB == <<<<"{", "x">>, <<>>>>

\* One article.
LinesC == <<ArticleLine("b")>>

WikiEasyFile == CorpusPath("app_data/corpus", CorpusFileName("wiki", "easy"))

LegacyEasyFile == CorpusPath("resource/corpus", LegacyFileName("easy"))

\* The corpus files that may exist, and what each may hold.
CorpusFileStates ==
    (WikiEasyFile :> {NoFile, Unreadable, TextFile(LinesA)})
    @@ (LegacyEasyFile :> {NoFile, TextFile(LinesB), TextFile(LinesC)})

FileAt(path) == IF path \in DOMAIN corpusFiles THEN corpusFiles[path] ELSE NoFile

\* Path::exists
CorpusExists(path) == FileAt(path).kind # "none"

RECURSIVE FindFrom(_, _, _)
FindFrom(i, family, tier) ==
    IF i > Len(corpus_candidate_dirs) THEN NoCorpusPath
    ELSE LET dir == corpus_candidate_dirs[i]
             explicit_family == CorpusPath(dir, CorpusFileName(family, tier))
             legacy == CorpusPath(dir, LegacyFileName(tier))
         IN IF CorpusExists(explicit_family) THEN SomeCorpusPath(explicit_family)
            ELSE IF family = "wiki" /\ CorpusExists(legacy) THEN SomeCorpusPath(legacy)
            ELSE FindFrom(i + 1, family, tier)

find_corpus_path(family, tier) == FindFrom(1, family, tier)

\* fs::read_to_string(path), split by str::lines
read_to_string(path) ==
    IF FileAt(path).kind = "text" THEN Ok(FileAt(path).lines) ELSE Err("read failed")

\* serde_json::from_str::<CorpusArticle>(line): whitespace around the object is
\* allowed, anything else is an error.
from_str_article(line) ==
    LET text == Trim(line)
    IN IF Len(text) = 3 /\ text[1] = "{" /\ text[3] = "}" THEN Ok(CorpusArticle(text[2]))
       ELSE Err("Invalid JSON")

\* A loop that gives up at the first line that does not parse.
RECURSIVE parse_articles_StopAtBadLine(_)
parse_articles_StopAtBadLine(lines) ==
    IF lines = <<>> THEN <<>>
    ELSE IF Trim(Head(lines)) = <<>> THEN parse_articles_StopAtBadLine(Tail(lines))
    ELSE IF from_str_article(Head(lines)).ok
         THEN <<from_str_article(Head(lines)).value>>
              \o parse_articles_StopAtBadLine(Tail(lines))
    ELSE <<>>

\* The loop over content.lines() of ensure_corpus_loaded.
RECURSIVE parse_articles(_)
parse_articles(lines) ==
    IF lines = <<>> THEN <<>>
    ELSE IF Trim(Head(lines)) = <<>> THEN parse_articles(Tail(lines))
    ELSE IF from_str_article(Head(lines)).ok
         THEN <<from_str_article(Head(lines)).value>> \o parse_articles(Tail(lines))
    ELSE parse_articles(Tail(lines))

\* No corpus command runs on the thread. miss: the check found the key not
\* cached; raced: another thread was then loading the same key.
NoWork ==
    [pc |-> "idle", cmd |-> "none", family |-> "", tier |-> "", fi |-> 0, ti |-> 0,
     miss |-> FALSE, raced |-> FALSE, path |-> NoCorpusPath, articles |-> <<>>, available |-> FALSE,
     output |-> <<>>, ret |-> Ok(NoArticle)]

(***************************************************************************)
(* Inputs                                                                  *)
(***************************************************************************)

sA == <<"A">>

sB == <<"B">>

pLib == AbsPath(<<nLib>>)

pBk == AbsPath(<<nLib, nBk>>)

pBk2 == AbsPath(<<nLib, nBk2>>)

pEm == AbsPath(<<nLib, nEm>>)

pLn == AbsPath(<<nLib, nLn>>)

pZz == AbsPath(<<nLib, nZz>>)

pSec == AbsPath(<<nSec>>)

\* The paths a caller asks to list or open.
ReqPaths ==
    {pBk, pBk2, pZz,
     AbsPath(<<nLib, nBk, nATxt>>), AbsPath(<<nLib, nBk, nBPdf>>),
     AbsPath(<<nLib, nBk, nBTxt>>), AbsPath(<<nLib, nLn, nATxt>>),
     AbsPath(<<nLib, nBk2, nCEpub>>), AbsPath(<<nLib, nBk2, nNotes>>),
     RelPath(<<nBk2, nCTxt>>), AbsPath(<<nLib, nBk2, nMab>>),
     AbsPath(<<nSec, nSTxt>>)}

\* The sources a caller asks to add: a name that needs trimming or a blank one,
\* and a folder, a link to a folder, a relative path, a file, a missing path.
AddNames == {<<"A", " ">>, <<" ">>}

AddPaths == {pBk, pLn, RelPath(<<nBk2>>), pEm, pZz, AbsPath(<<nLib, nBk, nATxt>>)}

RemovePaths == {pBk, pLn, pBk2, pEm, pZz}

\* The folders picked as the shared root of an import.
SharedRoots == {pLib, pBk, pZz}

\* The directories that may be deleted while the program runs.
Deletable == {pBk2.segs}

ManifestOf(sources, entries) ==
    [schema |-> LIBRARY_MANIFEST_SCHEMA, version |-> LIBRARY_MANIFEST_VERSION,
     sources |-> sources, entries |-> entries]

MSource(name, root_name) == [name |-> name, root_name |-> root_name]

MEntry(source_name, relative_path, entry_type) ==
    [source_name |-> source_name, relative_path |-> relative_path,
     entry_type |-> entry_type, normalized_text_relative_path |-> NoStr]

NoManifest == [schema |-> "", version |-> 0, sources |-> <<>>, entries |-> <<>>]

\* Manifest files written by hand or on another machine:
\*  a folder that is there and one that is not;
\*  two sources that lead to the same folder (one through a link);
\*  a single source whose folder is not under the shared root;
\*  a folder whose listed file is there and one whose listed file is not;
\*  a manifest of another version.
HandManifests ==
    {ManifestOf(<<MSource(sA, nBk), MSource(sB, nZz)>>, <<MEntry(sA, nATxt, ExtTxt)>>),
     ManifestOf(<<MSource(sA, nBk), MSource(sB, nLn)>>, <<>>),
     ManifestOf(<<MSource(sA, nZz)>>, <<MEntry(sA, nATxt, ExtTxt)>>),
     ManifestOf(<<MSource(sA, nBk2), MSource(sB, nEm)>>,
                <<MEntry(sA, nCTxt, ExtTxt), MEntry(sB, nATxt, ExtTxt)>>),
     [ManifestOf(<<MSource(sA, nBk)>>, <<>>) EXCEPT !.version = 2]}

\* Manifest files the importer must refuse: each would import the folder bk
\* if it were accepted.
\*  another schema; a source with a blank name, with an empty rootName;
\*  an entry with a blank sourceName, with a blank relativePath, with a type in
\*  capitals, with a type that is no book type.
InvalidManifests ==
    {[ManifestOf(<<MSource(sA, nBk)>>, <<>>) EXCEPT !.schema = "reader-library"],
     ManifestOf(<<MSource(<<" ">>, nBk)>>, <<>>),
     ManifestOf(<<MSource(sA, nBk), MSource(sB, <<>>)>>, <<>>),
     ManifestOf(<<MSource(sA, nBk)>>, <<MEntry(<<"\t">>, nATxt, ExtTxt)>>),
     ManifestOf(<<MSource(sA, nBk)>>, <<MEntry(sA, <<" ", "\t">>, ExtTxt)>>),
     ManifestOf(<<MSource(sA, nBk)>>, <<MEntry(sA, nBPdf, <<"P", "D", "F">>)>>),
     ManifestOf(<<MSource(sA, nBk)>>, <<MEntry(sA, nNotes, <<"m", "d">>)>>)}

\* Manifest files that pass validation and whose only entry names a file that
\* is not in the source's folder em (an empty folder): an absolute relativePath,
\* and one that climbs out of the folder with "..".
EscapingManifests ==
    {ManifestOf(<<MSource(sB, nEm)>>,
                <<MEntry(sB, PathString(AbsPath(<<nSec, nSTxt>>)), ExtTxt)>>),
     ManifestOf(<<MSource(sB, nEm)>>,
                <<MEntry(sB, PathString(RelPath(<<DotDot, nBk, nATxt>>)), ExtTxt)>>)}

\* The manifest files picked for an import.
ManifestFiles == HandManifests \cup InvalidManifests

\* The valid manifest files picked when the import alone is looked at.
ImportFiles == HandManifests \cup EscapingManifests

(***************************************************************************)
(* The calls                                                               *)
(***************************************************************************)

\* The threads that serve calls at the same time.
Threads == {1, 2}

\* The registry mutations that may run at the same time.
AddCall(name, p) == [op |-> "add", name |-> name, path |-> p, manifest |-> NoManifest]

RemoveCall(p) == [op |-> "remove", name |-> <<>>, path |-> p, manifest |-> NoManifest]

ImportCall(m, r) == [op |-> "import", name |-> <<>>, path |-> r, manifest |-> m]

Mutations ==
    {AddCall(<<" ">>, pBk), AddCall(<<"A", " ">>, RelPath(<<nBk2>>)),
     RemoveCall(pBk),
     ImportCall(ManifestOf(<<MSource(sB, nEm)>>, <<>>), pLib)}

\* No mutation is running on the thread.
NoWrite == [pc |-> "idle", call |-> RemoveCall(RootPath), out |-> <<>>, res |-> Ok(<<>>)]

\* Option<Vec<LibrarySource>>
SomeList(l) == [some |-> TRUE, list |-> l]

NoList == [some |-> FALSE, list |-> <<>>]

\* No registry mutation came right before the call.
NoMutation == [op |-> "none", pre |-> <<>>]

NoCall ==
    [op |-> "none", path |-> RootPath, name |-> <<>>, manifest |-> NoManifest,
     pre |-> <<>>, res |-> Ok(<<>>), trace |-> <<>>, saved |-> FALSE,
     again |-> FALSE, prev |-> <<>>, follows |-> NoMutation]

\* No import is being followed.
NoImport ==
    [pc |-> "idle", manifest |-> NoManifest, path |-> RootPath, shared_root |-> RootPath,
     i |-> 0, acc |-> <<>>, before |-> <<>>, pre |-> <<>>, writes |-> 0]

Init ==
    /\ imp = NoImport
    /\ removed = {}
    /\ registry = <<>>
    /\ sourcesFile = <<>>
    /\ manifestFile = NoManifest
    /\ exportedFrom = <<>>
    /\ last = NoCall
    /\ writers = [t \in Threads |-> NoWrite]
    /\ lastWrite = NoList
    /\ keyring = [k \in KeyIds |-> NoStr]
    /\ keyCall = NoKeyCall
    /\ corpus_cache = [k \in CorpusKeys |-> NoArticles]
    /\ corpusFiles = (WikiEasyFile :> TextFile(LinesA)) @@ (LegacyEasyFile :> NoFile)
    /\ lock = 0
    /\ workers = [t \in Threads |-> NoWork]
    /\ inserts = <<>>

\* No call is in progress: the result of the last one has been delivered.
Idle == last.op = "none"

\* The caller takes the result of the call.
Deliver ==
    /\ ~Idle
    /\ last' = NoCall
    /\ UNCHANGED <<removed, registry, sourcesFile, manifestFile, exportedFrom, imp, restVars>>

\* A list call may come right after a registry mutation, before anything else
\* happens: follows then holds that mutation and the registry it started from.
FollowsMutation == last.op \in {"add", "remove", "import"}

Followed == IF FollowsMutation THEN [op |-> last.op, pre |-> last.pre] ELSE NoMutation

ListBooks(p) ==
    LET o == library_list_books(p)
    IN /\ Idle \/ FollowsMutation
       /\ last' = [NoCall EXCEPT !.op = "list", !.path = p, !.pre = registry,
                                 !.res = o.res, !.trace = o.trace,
                                 !.follows = Followed]
       /\ UNCHANGED <<removed, registry, sourcesFile, manifestFile, exportedFrom, imp, restVars>>

OpenBook(p) ==
    LET o == library_open_book(p)
    IN /\ Idle
       /\ last' = [NoCall EXCEPT !.op = "open", !.path = p, !.pre = registry,
                                 !.res = o.res, !.trace = o.trace]
       /\ UNCHANGED <<removed, registry, sourcesFile, manifestFile, exportedFrom, imp, restVars>>

AddSource(name, p) ==
    LET o == library_add_source(LibrarySource(name, p))
    IN /\ Idle
       /\ registry' = o.sources
       /\ sourcesFile' = FileAfter(o)
       /\ last' = [NoCall EXCEPT !.op = "add", !.path = p, !.name = name,
                                 !.pre = registry, !.res = o.res, !.saved = o.save]
       /\ UNCHANGED <<removed, manifestFile, exportedFrom, imp, restVars>>

RemoveSource(p) ==
    LET o == library_remove_source(p)
    IN /\ Idle
       /\ registry' = o.sources
       /\ sourcesFile' = FileAfter(o)
       /\ last' = [NoCall EXCEPT !.op = "remove", !.path = p,
                                 !.pre = registry, !.res = o.res, !.saved = o.save]
       /\ UNCHANGED <<removed, manifestFile, exportedFrom, imp, restVars>>

\* The statuses a result list reports, in order.
Statuses(res) ==
    IF res.ok THEN [i \in 1..Len(res.value.results) |-> res.value.results[i].status]
    ELSE <<>>

\* library_import_manifest once both pickers have returned a choice. The same
\* import may be run a second time right after the first: again is then set and
\* prev holds the statuses the first run reported.
ImportManifest(manifest_file, shared_root_path) ==
    LET o == library_import_manifest(manifest_file, shared_root_path)
        again == /\ last.op = "import"
                 /\ last.manifest = manifest_file
                 /\ last.path = shared_root_path
    IN /\ Idle \/ (again /\ ~last.again)
       /\ registry' = o.sources
       /\ sourcesFile' = FileAfter(o)
       /\ last' = [NoCall EXCEPT !.op = "import", !.path = shared_root_path,
                                 !.manifest = manifest_file, !.pre = registry,
                                 !.res = o.res, !.saved = o.save,
                                 !.again = again,
                                 !.prev = IF again THEN Statuses(last.res) ELSE <<>>]
       /\ UNCHANGED <<removed, manifestFile, exportedFrom, imp, restVars>>

\* library_export_manifest once the save picker has returned a choice.
ExportManifest ==
    LET sources == load_sources
        manifest == build_library_manifest(sources)
    IN IF sources = <<>>
       THEN /\ Idle
            /\ last' = [NoCall EXCEPT !.op = "export",
                                      !.res = Err("No library sources configured")]
            /\ UNCHANGED <<removed, registry, sourcesFile, manifestFile, exportedFrom, imp, restVars>>
       ELSE /\ Idle
            /\ manifestFile' = manifest
            /\ exportedFrom' = sources
            /\ last' = [NoCall EXCEPT !.op = "export", !.pre = registry,
                                      !.manifest = manifest,
                                      !.res = Ok([status |-> "exported",
                                                  source_count |-> Len(manifest.sources),
                                                  entry_count |-> Len(manifest.entries)])]
            /\ UNCHANGED <<removed, registry, sourcesFile, imp, restVars>>

\* A directory of the library is deleted behind the program's back.
DeleteDir(d) ==
    /\ Idle
    /\ d \notin removed
    /\ removed' = removed \cup {d}
    /\ UNCHANGED <<registry, sourcesFile, manifestFile, exportedFrom, last, imp, restVars>>

Next ==
    \/ \E p \in ReqPaths : Idle /\ ListBooks(p)
    \/ \E p \in ReqPaths : OpenBook(p)
    \/ \E name \in AddNames, p \in AddPaths : AddSource(name, p)
    \/ \E p \in RemovePaths : RemoveSource(p)
    \/ \E m \in ManifestFiles, r \in SharedRoots : ImportManifest(m, r)
    \/ \E d \in Deletable : DeleteDir(d)
    \/ Deliver

Spec == Init /\ [][Next]_vars

(***************************************************************************)
(* The import alone, into registries built by library_add_source.          *)
(***************************************************************************)

NextImport ==
    \/ \E name \in AddNames, p \in AddPaths : AddSource(name, p)
    \/ \E m \in ImportFiles, r \in SharedRoots : ImportManifest(m, r)
    \/ Deliver

SpecImport == Init /\ [][NextImport]_vars

(***************************************************************************)
(* The guard between registry mutations: a list call may be the very next  *)
(* call after an add, a remove or an import.                               *)
(***************************************************************************)

NextAccess ==
    \/ \E p \in ReqPaths : ListBooks(p)
    \/ \E name \in AddNames, p \in AddPaths : AddSource(name, p)
    \/ \E p \in RemovePaths : RemoveSource(p)
    \/ \E m \in HandManifests, r \in SharedRoots : ImportManifest(m, r)
    \/ \E d \in Deletable : DeleteDir(d)
    \/ Deliver

SpecAccess == Init /\ [][NextAccess]_vars

(***************************************************************************)
(* Export on one machine, import on another: sources are registered, the   *)
(* manifest is exported, the registry is emptied and the manifest imported.*)
(***************************************************************************)

Exported == manifestFile # NoManifest

NextRoundTrip ==
    \/ \E name \in AddNames, p \in AddPaths : ~Exported /\ AddSource(name, p)
    \/ ~Exported /\ ExportManifest
    \/ \E p \in RemovePaths : Exported /\ RemoveSource(p)
    \/ \E r \in SharedRoots : Exported /\ ImportManifest(manifestFile, r)
    \/ Deliver

SpecRoundTrip == Init /\ [][NextRoundTrip]_vars

(***************************************************************************)
(* import_library_manifest followed statement by statement: the process    *)
(* may stop at any point of the loop.                                      *)
(***************************************************************************)

ImportBegin(manifest_file, shared_root_path) ==
    LET manifest == load_library_manifest(manifest_file)
        shared_root == normalize_path(shared_root_path)
        call == [NoCall EXCEPT !.op = "import", !.path = shared_root_path,
                               !.manifest = manifest_file, !.pre = registry]
    IN /\ Idle
       /\ imp.pc = "idle"
       /\ IF ~manifest.ok
          THEN /\ last' = [call EXCEPT !.res = manifest]
               /\ UNCHANGED imp
          ELSE IF ~shared_root.ok \/ ~is_directory(shared_root.path)
          THEN /\ last' = [call EXCEPT !.res = Err("Shared root is not a directory")]
               /\ UNCHANGED imp
          ELSE /\ imp' = [pc |-> "loop", manifest |-> manifest.value,
                          path |-> shared_root_path, shared_root |-> shared_root.path,
                          i |-> 1, acc |-> ImportStart, before |-> ImportStart,
                          pre |-> registry, writes |-> 0]
               /\ UNCHANGED last
       /\ UNCHANGED <<removed, registry, sourcesFile, manifestFile, exportedFrom, restVars>>

\* A turn that saves the registry as soon as it has handled its source.
ImportTurn_SaveEachTurn ==
    /\ imp.pc = "loop"
    /\ imp.i <= Len(imp.manifest.sources)
    /\ imp' = [imp EXCEPT
                 !.acc = ImportSource(imp.acc, imp.manifest, imp.shared_root,
                                      imp.manifest.sources[imp.i]),
                 !.before = imp.acc,
                 !.i = @ + 1,
                 !.writes = @ + 1]
    /\ registry' = imp'.acc.updated_sources
    /\ sourcesFile' = to_string_pretty(registry')
    /\ UNCHANGED <<removed, manifestFile, exportedFrom, last, restVars>>

\* One turn of the loop; before keeps the local state the turn started from.
ImportTurn ==
    /\ imp.pc = "loop"
    /\ imp.i <= Len(imp.manifest.sources)
    /\ imp' = [imp EXCEPT
                 !.acc = ImportSource(imp.acc, imp.manifest, imp.shared_root,
                                      imp.manifest.sources[imp.i]),
                 !.before = imp.acc,
                 !.i = @ + 1]
    /\ UNCHANGED <<removed, registry, sourcesFile, manifestFile, exportedFrom, last, restVars>>

\* save_sources after the loop, and the summary returned.
ImportSave ==
    /\ imp.pc = "loop"
    /\ imp.i > Len(imp.manifest.sources)
    /\ registry' = imp.acc.updated_sources
    /\ sourcesFile' = to_string_pretty(registry')
    /\ imp' = [imp EXCEPT !.pc = "saved", !.writes = @ + 1]
    /\ last' = [NoCall EXCEPT !.op = "import", !.path = imp.path,
                              !.manifest = imp.manifest, !.pre = imp.pre,
                              !.res = Ok(ImportSummary(imp.acc)), !.saved = TRUE]
    /\ UNCHANGED <<removed, manifestFile, exportedFrom, restVars>>

\* The process stops in the middle of the call.
ImportCrash ==
    /\ imp.pc = "loop"
    /\ imp' = [imp EXCEPT !.pc = "stopped"]
    /\ UNCHANGED <<removed, registry, sourcesFile, manifestFile, exportedFrom, last, restVars>>

\* The call is over (or the program is started again): the next one may begin.
ImportEnd ==
    /\ imp.pc \in {"saved", "stopped"}
    /\ imp' = NoImport
    /\ last' = NoCall
    /\ UNCHANGED <<removed, registry, sourcesFile, manifestFile, exportedFrom, restVars>>

NextSteps ==
    \/ \E name \in AddNames, p \in AddPaths : imp.pc = "idle" /\ AddSource(name, p)
    \/ \E m \in HandManifests, r \in SharedRoots : ImportBegin(m, r)
    \/ ImportTurn
    \/ ImportSave
    \/ ImportCrash
    \/ ImportEnd
    \/ imp.pc = "idle" /\ Deliver

SpecSteps == Init /\ [][NextSteps]_vars

(***************************************************************************)
(* Registry mutations on two threads. Each loads the registry and computes *)
(* its list in one step (nothing else is shared), then save_sources writes *)
(* the file with fs::write: File::create, then write_all.                  *)
(***************************************************************************)

\* The command run from its load_sources to the list it hands to save_sources.
MutationOf(c) ==
    CASE c.op = "add" -> library_add_source(LibrarySource(c.name, c.path))
      [] c.op = "remove" -> library_remove_source(c.path)
      [] c.op = "import" -> library_import_manifest(c.manifest, c.path)

MutBegin(t, c) ==
    LET o == MutationOf(c)
    IN /\ writers[t].pc = "idle"
       /\ writers' = [writers EXCEPT ![t] =
                         [pc |-> IF o.save THEN "create" ELSE "done",
                          call |-> c, out |-> o.sources, res |-> o.res]]
       /\ UNCHANGED <<removed, registry, sourcesFile, manifestFile, exportedFrom, last, imp,
                      lastWrite, keyVars, corpusVars>>

\* File::create(path): the file is opened for writing and emptied.
MutCreate(t) ==
    /\ writers[t].pc = "create"
    /\ sourcesFile' = <<>>
    /\ registry' = read_sources(sourcesFile')
    /\ writers' = [writers EXCEPT ![t].pc = "write"]
    /\ UNCHANGED <<removed, manifestFile, exportedFrom, last, imp,
                   lastWrite, keyVars, corpusVars>>

\* write_all(payload) on the file opened by MutCreate.
MutWrite(t) ==
    /\ writers[t].pc = "write"
    /\ sourcesFile' = WriteAll(sourcesFile, to_string_pretty(writers[t].out))
    /\ registry' = read_sources(sourcesFile')
    /\ lastWrite' = SomeList(writers[t].out)
    /\ writers' = [writers EXCEPT ![t].pc = "done"]
    /\ UNCHANGED <<removed, manifestFile, exportedFrom, last, imp, keyVars, corpusVars>>

\* The command returns.
MutReturn(t) ==
    /\ writers[t].pc = "done"
    /\ writers' = [writers EXCEPT ![t] = NoWrite]
    /\ UNCHANGED <<removed, registry, sourcesFile, manifestFile, exportedFrom, last, imp,
                   lastWrite, keyVars, corpusVars>>

NextRace ==
    \/ \E t \in Threads, c \in Mutations : MutBegin(t, c)
    \/ \E t \in Threads : MutCreate(t)
    \/ \E t \in Threads : MutWrite(t)
    \/ \E t \in Threads : MutReturn(t)

SpecRace == Init /\ [][NextRace]_vars

(***************************************************************************)
(* The secure_keys commands                                                *)
(***************************************************************************)

\* The record of a command on the secret store, after outcome o.
KeyCallOf(op, key_id, value, up, o) ==
    [op |-> op, key_id |-> key_id, value |-> value, up |-> up,
     res |-> o.res, ops |-> o.ops, pre |-> keyring,
     before |-> [op |-> keyCall.op, key_id |-> keyCall.key_id,
                 value |-> keyCall.value, ok |-> keyCall.res.ok]]

KeysIsAvailable(up) ==
    LET o == secure_keys_is_available(up)
    IN /\ keyring' = o.ring
       /\ keyCall' = KeyCallOf("available", "", NoStr, up, o)
       /\ UNCHANGED <<removed, registry, sourcesFile, manifestFile, exportedFrom, last, imp,
                      raceVars, corpusVars>>

KeysGet(key_id, up) ==
    LET o == secure_keys_get(key_id, up)
    IN /\ keyring' = o.ring
       /\ keyCall' = KeyCallOf("get", key_id, NoStr, up, o)
       /\ UNCHANGED <<removed, registry, sourcesFile, manifestFile, exportedFrom, last, imp,
                      raceVars, corpusVars>>

KeysSet(key_id, value, up) ==
    LET o == secure_keys_set(key_id, value, up)
    IN /\ keyring' = o.ring
       /\ keyCall' = KeyCallOf("set", key_id, value, up, o)
       /\ UNCHANGED <<removed, registry, sourcesFile, manifestFile, exportedFrom, last, imp,
                      raceVars, corpusVars>>

NextKeys ==
    \/ \E up \in BOOLEAN : KeysIsAvailable(up)
    \/ \E k \in KeyIds, up \in BOOLEAN : KeysGet(k, up)
    \/ \E k \in KeyIds, v \in KeyValues, up \in BOOLEAN : KeysSet(k, v, up)

SpecKeys == Init /\ [][NextKeys]_vars

(***************************************************************************)
(* The corpus commands on two threads, statement by statement. A thread    *)
(* takes the cache mutex in a step of its own where it keeps it for more   *)
(* than one expression.                                                    *)
(***************************************************************************)

\* The key the thread's ensure_corpus_loaded is about.
KeyOf(w) == corpus_key(w.family, w.tier)

\* ensure_corpus_loaded is entered for (family, tier).
EnterEnsure(w, family, tier) ==
    [w EXCEPT !.pc = "lock", !.family = family, !.tier = tier, !.miss = FALSE,
              !.raced = FALSE,
              !.path = NoCorpusPath, !.articles = <<>>, !.available = FALSE]

\* corpus_sample_article(family, tier) is called.
SampleBegin(t, family, tier) ==
    /\ workers[t].pc = "idle"
    /\ workers' = [workers EXCEPT ![t] =
          IF \/ \A i \in 1..Len(CORPUS_FAMILIES) : CORPUS_FAMILIES[i] # family
             \/ \A i \in 1..Len(CORPUS_TIERS) : CORPUS_TIERS[i] # tier
          THEN [NoWork EXCEPT !.pc = "done", !.cmd = "sample", !.family = family,
                              !.tier = tier, !.ret = Ok(NoArticle)]
          ELSE EnterEnsure([NoWork EXCEPT !.cmd = "sample"], family, tier)]
    /\ UNCHANGED <<libVars, raceVars, keyVars, corpus_cache, corpusFiles, lock, inserts>>

\* corpus_get_info is called: the loop starts at the first family and tier.
InfoBegin(t) ==
    /\ workers[t].pc = "idle"
    /\ workers' = [workers EXCEPT ![t] =
          EnterEnsure([NoWork EXCEPT !.cmd = "info", !.fi = 1, !.ti = 1],
                      CORPUS_FAMILIES[1], CORPUS_TIERS[1])]
    /\ UNCHANGED <<libVars, raceVars, keyVars, corpus_cache, corpusFiles, lock, inserts>>

\* state.corpus_cache.lock() of the first block
EnsureLock(t) ==
    /\ workers[t].pc = "lock"
    /\ lock = 0
    /\ lock' = t
    /\ workers' = [workers EXCEPT ![t].pc = "check"]
    /\ UNCHANGED <<libVars, raceVars, keyVars, corpus_cache, corpusFiles, inserts>>

\* Another thread is between its check and its insert for the key of thread t.
Loading(t) ==
    \E u \in Threads \ {t} :
        /\ workers[u].pc \in {"find", "read", "relock", "insert"}
        /\ KeyOf(workers[u]) = KeyOf(workers[t])

\* A check that goes on to load the file whether or not the key is cached.
EnsureCheck_AlwaysLoad(t) ==
    /\ workers[t].pc = "check"
    /\ lock = t
    /\ lock' = 0
    /\ workers' = [workers EXCEPT ![t].pc = "find"]
    /\ UNCHANGED <<libVars, raceVars, keyVars, corpus_cache, corpusFiles, inserts>>

\* cache.contains_key(&key): return Ok(true) if so; the block ends, the lock is
\* released.
EnsureCheck(t) ==
    /\ workers[t].pc = "check"
    /\ lock = t
    /\ lock' = 0
    /\ workers' = [workers EXCEPT ![t] =
          IF corpus_cache[KeyOf(workers[t])].some
          THEN [workers[t] EXCEPT !.pc = "ensured", !.available = TRUE]
          ELSE [workers[t] EXCEPT !.pc = "find", !.miss = TRUE, !.raced = Loading(t)]]
    /\ UNCHANGED <<libVars, raceVars, keyVars, corpus_cache, corpusFiles, inserts>>

\* find_corpus_path: return Ok(false) when there is none.
EnsureFind(t) ==
    LET found == find_corpus_path(workers[t].family, workers[t].tier)
    IN /\ workers[t].pc = "find"
       /\ workers' = [workers EXCEPT ![t] =
             IF found.some THEN [workers[t] EXCEPT !.pc = "read", !.path = found]
             ELSE [workers[t] EXCEPT !.pc = "ensured", !.available = FALSE]]
       /\ UNCHANGED <<libVars, raceVars, keyVars, corpus_cache, corpusFiles, lock, inserts>>

\* fs::read_to_string: return Ok(false) when it fails; then the loop over the
\* lines, which touches nothing shared.
EnsureRead(t) ==
    LET content == read_to_string(workers[t].path.at)
    IN /\ workers[t].pc = "read"
       /\ workers' = [workers EXCEPT ![t] =
             IF content.ok
             THEN [workers[t] EXCEPT !.pc = "relock",
                                     !.articles = parse_articles(content.value)]
             ELSE [workers[t] EXCEPT !.pc = "ensured", !.available = FALSE]]
       /\ UNCHANGED <<libVars, raceVars, keyVars, corpus_cache, corpusFiles, lock, inserts>>

\* state.corpus_cache.lock() before the insert
EnsureRelock(t) ==
    /\ workers[t].pc = "relock"
    /\ lock = 0
    /\ lock' = t
    /\ workers' = [workers EXCEPT ![t].pc = "insert"]
    /\ UNCHANGED <<libVars, raceVars, keyVars, corpus_cache, corpusFiles, inserts>>

\* cache.insert(key, articles); Ok(true): the lock is released on return.
EnsureInsert(t) ==
    /\ workers[t].pc = "insert"
    /\ lock = t
    /\ corpus_cache' = [corpus_cache EXCEPT ![KeyOf(workers[t])] =
                           SomeArticles(workers[t].articles)]
    /\ inserts' = Append(inserts, [key |-> KeyOf(workers[t]), thread |-> t,
                                   list |-> workers[t].articles])
    /\ lock' = 0
    /\ workers' = [workers EXCEPT ![t].pc = "ensured", ![t].available = TRUE]
    /\ UNCHANGED <<libVars, raceVars, keyVars, corpusFiles>>

\* corpus_sample_article after ensure_corpus_loaded: Ok(None) when it returned
\* false, else the lock is taken for the rest of the function.
SampleLock(t) ==
    /\ workers[t].pc = "ensured"
    /\ workers[t].cmd = "sample"
    /\ IF ~workers[t].available
       THEN /\ workers' = [workers EXCEPT ![t].pc = "done", ![t].ret = Ok(NoArticle)]
            /\ UNCHANGED lock
       ELSE /\ lock = 0
            /\ lock' = t
            /\ workers' = [workers EXCEPT ![t].pc = "pick"]
    /\ UNCHANGED <<libVars, raceVars, keyVars, corpus_cache, corpusFiles, inserts>>

\* cache.get(&key), the empty check and articles[now % len]: the clock gives any
\* index of the list.
SamplePick(t) ==
    LET got == corpus_cache[KeyOf(workers[t])]
    IN /\ workers[t].pc = "pick"
       /\ lock = t
       /\ lock' = 0
       /\ IF ~got.some \/ got.list = <<>>
          THEN workers' = [workers EXCEPT ![t].pc = "done", ![t].ret = Ok(NoArticle)]
          ELSE \E index \in 1..Len(got.list) :
                  workers' = [workers EXCEPT ![t].pc = "done",
                                             ![t].ret = Ok(SomeArticle(got.list[index]))]
       /\ UNCHANGED <<libVars, raceVars, keyVars, corpus_cache, corpusFiles, inserts>>

\* corpus_get_info after ensure_corpus_loaded: the lock is taken for the length
\* of the list only; then the next tier, the next family, or the end.
InfoCount(t) ==
    LET w == workers[t]
        got == corpus_cache[KeyOf(w)]
        info == [family |-> w.family, tier |-> w.tier, available |-> w.available,
                 total_articles |-> IF got.some THEN Len(got.list) ELSE 0]
        output == Append(w.output, info)
    IN /\ w.pc = "ensured"
       /\ w.cmd = "info"
       /\ lock = 0
       /\ workers' = [workers EXCEPT ![t] =
             IF w.ti < Len(CORPUS_TIERS)
             THEN EnterEnsure([w EXCEPT !.ti = w.ti + 1, !.output = output],
                              w.family, CORPUS_TIERS[w.ti + 1])
             ELSE IF w.fi < Len(CORPUS_FAMILIES)
             THEN EnterEnsure([w EXCEPT !.fi = w.fi + 1, !.ti = 1, !.output = output],
                              CORPUS_FAMILIES[w.fi + 1], CORPUS_TIERS[1])
             ELSE [w EXCEPT !.pc = "done", !.output = output, !.ret = Ok(output)]]
       /\ UNCHANGED <<libVars, raceVars, keyVars, corpus_cache, corpusFiles, lock, inserts>>

\* The command returns its result.
CorpusReturn(t) ==
    /\ workers[t].pc = "done"
    /\ workers' = [workers EXCEPT ![t] = NoWork]
    /\ UNCHANGED <<libVars, raceVars, keyVars, corpus_cache, corpusFiles, lock, inserts>>

\* A corpus file is written, made unreadable or deleted by another program.
CorpusFileChange(path, file) ==
    /\ corpusFiles[path] # file
    /\ corpusFiles' = [corpusFiles EXCEPT ![path] = file]
    /\ UNCHANGED <<libVars, raceVars, keyVars, corpus_cache, lock, workers, inserts>>

\* The families and tiers asked of corpus_sample_article.
SampleFamilies == {"wiki", "prose", "news"}

SampleTiers == {"easy"}

\* corpus_get_info is served on the first thread, samples on both.
NextCorpus ==
    \/ \E t \in Threads, f \in SampleFamilies, tier \in SampleTiers : SampleBegin(t, f, tier)
    \/ InfoBegin(1)
    \/ \E t \in Threads : EnsureLock(t)
    \/ \E t \in Threads : EnsureCheck(t)
    \/ \E t \in Threads : EnsureFind(t)
    \/ \E t \in Threads : EnsureRead(t)
    \/ \E t \in Threads : EnsureRelock(t)
    \/ \E t \in Threads : EnsureInsert(t)
    \/ \E t \in Threads : SampleLock(t)
    \/ \E t \in Threads : SamplePick(t)
    \/ \E t \in Threads : InfoCount(t)
    \/ \E t \in Threads : CorpusReturn(t)
    \/ \E path \in DOMAIN CorpusFileStates :
          \E file \in CorpusFileStates[path] : CorpusFileChange(path, file)

SpecCorpus == Init /\ [][NextCorpus]_vars

(***************************************************************************)
(* Properties                                                              *)
(***************************************************************************)

GuardErrors ==
    {"Path does not exist", "No library sources configured",
     "Path is outside configured library sources"}

GuardedCall == last.op \in {"list", "open"}

\* The guard let the last list or open call through.
GuardPassed == GuardedCall /\ last.res.err \notin GuardErrors

\* c is the root r or lies below it, component by component.
EqualOrBelow(c, r) ==
    /\ Len(r.segs) <= Len(c.segs)
    /\ \A i \in 1..Len(r.segs) : c.segs[i] = r.segs[i]

\* The requested path exists and its canonical form is a registered root's
\* canonical form or a descendant of it.
Contained(p) ==
    /\ normalize_path(p).ok
    /\ \E i \in 1..Len(registry) :
          /\ normalize_path(registry[i].path).ok
          /\ EqualOrBelow(normalize_path(p).path, normalize_path(registry[i].path).path)

\* C1: the guard lets a requested path through if and only if the path exists and
\* its canonical form equals, or is a component-wise descendant of, the canonical
\* form of a registered root; a sibling folder whose name only extends a root's
\* name is refused.
C1_GuardIffContained == GuardedCall => (GuardPassed <=> Contained(last.path))

\* C1 witness: with /l/bk registered and /l/bk2 not, listing /l/bk2 was refused as
\* outside the library.
C1_Witness ==
    /\ last.op = "list"
    /\ last.path = pBk2
    /\ \E i \in 1..Len(registry) : registry[i].path = pBk
    /\ \A i \in 1..Len(registry) : registry[i].path # pBk2
    /\ last.res.err = "Path is outside configured library sources"

\* The position of the first walk or read of the last call, 0 when there is none.
Touches == {i \in 1..Len(last.trace) : last.trace[i].act \in {"walk", "read"}}

\* C2: in a list or open call the guard runs first on the caller's path, before
\* any directory walk or file read; when it fails, the call returns the guard's
\* error and walks and reads nothing.
C2_GuardFirst ==
    GuardedCall =>
        /\ last.trace # <<>>
        /\ last.trace[1] = Guarded(last.path)
        /\ \A i \in Touches : i > 1
        /\ ~resolve_allowed_library_path(last.path).ok =>
              /\ Touches = {}
              /\ last.res = resolve_allowed_library_path(last.path)

\* C2 witness: a list or open call on a file outside the library, refused by the guard.
C2_Witness ==
    /\ GuardedCall
    /\ last.path = AbsPath(<<nSec, nSTxt>>)
    /\ registry # <<>>
    /\ last.res.err = "Path is outside configured library sources"

\* C3 as claimed: the file whose content an open call returns lies, by its
\* canonical path, inside a registered root, also when it is the .txt snapshot
\* read in place of a pdf or epub file.
C3_ContentInsideRoots ==
    (last.op = "open" /\ last.res.ok) => Contained(last.res.value.content)

\* C4 as claimed: a missing path fails as not found, an existing path with an
\* empty registry fails as no sources configured, and in every other case the
\* path is refused as outside the library when no root contains it.
C4_OrderByRegistry ==
    GuardedCall =>
        /\ ~normalize_path(last.path).ok => last.res.err = "Path does not exist"
        /\ (normalize_path(last.path).ok /\ registry = <<>>) =>
              last.res.err = "No library sources configured"
        /\ (normalize_path(last.path).ok /\ registry # <<>> /\ ~Contained(last.path)) =>
              last.res.err = "Path is outside configured library sources"

\* Some registered source leads to an existing path.
SomeRootResolves == \E i \in 1..Len(registry) : normalize_path(registry[i].path).ok

\* C4 amended: a missing path fails as not found, whatever the registry; an
\* existing path fails as no sources configured when no registered source leads
\* to an existing path (the empty registry included); otherwise it is refused as
\* outside the library when no root contains it.
C4_OrderByRoots ==
    GuardedCall =>
        /\ ~normalize_path(last.path).ok => last.res.err = "Path does not exist"
        /\ (normalize_path(last.path).ok /\ ~SomeRootResolves) =>
              last.res.err = "No library sources configured"
        /\ (normalize_path(last.path).ok /\ SomeRootResolves /\ ~Contained(last.path)) =>
              last.res.err = "Path is outside configured library sources"

\* C4 witness: a missing path asked of an empty registry.
C4_Witness ==
    /\ GuardedCall
    /\ registry = <<>>
    /\ last.path = pZz
    /\ last.res.err = "Path does not exist"

\* The compare-safe forms of the paths of a list of sources.
CanonRoots(sources) ==
    {normalize_path_for_compare(sources[i].path) : i \in 1..Len(sources)}

\* Every source of the list is a folder directly under shared_root_path.
ParentOfAll(sources, shared_root_path) ==
    /\ normalize_path(shared_root_path).ok
    /\ \A i \in 1..Len(sources) :
          LET root == normalize_path_for_compare(sources[i].path)
          IN root.segs # <<>> /\ PathParent(root) = normalize_path(shared_root_path).path

\* The last call imported the exported manifest with the parent of the exported
\* roots as the shared root.
RoundTripCall ==
    /\ last.op = "import"
    /\ Exported
    /\ last.manifest = manifestFile
    /\ ParentOfAll(exportedFrom, last.path)

AllStatus(res, status) ==
    /\ res.ok
    /\ Len(res.value.results) = Len(last.manifest.sources)
    /\ \A i \in 1..Len(res.value.results) : res.value.results[i].status = status

\* C5 as claimed: importing the manifest built from the registered sources into an
\* empty registry, with the parent of the roots as the shared root, gives back a
\* registry with the same canonical roots and reports every source added;
\* importing it a second time reports every source existing.
C5_RoundTrip ==
    RoundTripCall =>
        /\ last.pre = <<>> =>
              /\ AllStatus(last.res, "added")
              /\ CanonRoots(registry) = CanonRoots(exportedFrom)
        /\ (last.again /\ CanonRoots(last.pre) = CanonRoots(exportedFrom)) =>
              AllStatus(last.res, "existing")

\* C6: a second run of the same import right after the first adds nothing, reports
\* existing every source the first run reported added or existing, and leaves the
\* registry as the first run left it.
C6_ImportIdempotent ==
    (last.op = "import" /\ last.again /\ last.res.ok) =>
        /\ last.res.value.added = 0
        /\ Len(last.prev) = Len(last.res.value.results)
        /\ \A i \in 1..Len(last.prev) :
              last.prev[i] \in {"added", "existing"} =>
                  last.res.value.results[i].status = "existing"
        /\ registry = last.pre

\* C6 witness: the second run of an import whose first run added a source and
\* found another one missing.
C6_Witness ==
    /\ last.op = "import"
    /\ last.again
    /\ last.prev = <<"added", "missing">>
    /\ last.res.ok

\* The source the last turn of the loop has handled.
TurnDone == imp.pc = "loop" /\ imp.i > 1

TurnSource == imp.manifest.sources[imp.i - 1]

\* That source's folder is not a directory under the shared root, in a manifest
\* of two sources or more.
MissingFolderTurn ==
    /\ TurnDone
    /\ Len(imp.manifest.sources) >= 2
    /\ ~is_directory(PathJoin(imp.shared_root, ParsePath(TurnSource.root_name)))

\* C7: in a manifest of two or more sources, a source whose rootName is no
\* directory under the shared root is reported missing, with no resolved path and
\* a message that carries the rootName; only the missing counter grows and no
\* source is added.
C7_MissingFolder ==
    MissingFolderTurn =>
        LET r == imp.acc.results[Len(imp.acc.results)]
        IN /\ Len(imp.acc.results) = Len(imp.before.results) + 1
           /\ r.source_name = TurnSource.name
           /\ r.status = "missing"
           /\ r.resolved_path = NoPath
           /\ r.message = Message("Missing folder under shared root", TurnSource.root_name)
           /\ imp.acc.missing = imp.before.missing + 1
           /\ imp.acc.added = imp.before.added
           /\ imp.acc.existing = imp.before.existing
           /\ imp.acc.updated_sources = imp.before.updated_sources
           /\ registry = imp.pre

\* C7 witness: the turn for the folder zz, which is not under /l, after the turn
\* that added bk.
C7_Witness ==
    /\ MissingFolderTurn
    /\ TurnSource.root_name = nZz
    /\ imp.acc.added = 1
    /\ imp.acc.missing = 1

\* C8 as claimed: in an exported manifest the sourceName of every entry is the
\* name of exactly one source of the manifest.
C8_EntryNamesOneSource ==
    (last.op = "export" /\ last.res.ok) =>
        \A k \in 1..Len(last.manifest.entries) :
            Cardinality({i \in 1..Len(last.manifest.sources) :
                            last.manifest.sources[i].name =
                                last.manifest.entries[k].source_name}) = 1

\* C9: as long as the filesystem is as it was at the start, no two registered
\* sources have the same compare-safe path, whatever their names.
C9_NoDuplicatePaths ==
    removed = {} =>
        \A i, j \in 1..Len(registry) :
            i # j => normalize_path_for_compare(registry[i].path)
                        # normalize_path_for_compare(registry[j].path)

\* C9 witness: an import of two sources that lead to the same folder (bk, and ln
\* which links to it) added the first and reported the second existing.
C9_Witness ==
    /\ last.op = "import"
    /\ removed = {}
    /\ Statuses(last.res) = <<"added", "existing">>
    /\ last.res.value.results[1].resolved_path = last.res.value.results[2].resolved_path
    /\ Len(registry) = Len(last.pre) + 1

\* The registry file is what it was when the import call began.
ImportLeftRegistry == registry = imp.pre /\ imp.writes = 0

\* C10, in each state: while the loop runs, and after the process has stopped in
\* it, the registry file is untouched; a call that has returned has written once;
\* a call that failed on the shared root has written nothing.
C10_State ==
    /\ imp.pc \in {"loop", "stopped"} => ImportLeftRegistry
    /\ imp.pc = "saved" => imp.writes = 1
    /\ (last.op = "import" /\ last.res.err = "Shared root is not a directory") =>
          (registry = last.pre /\ ~last.saved /\ imp.writes = 0)

\* C10, in each step of a call: the registry file is written by no step but the
\* one that follows the last turn of the loop.
C10_Step ==
    (imp.pc # "idle" /\ (registry' # registry \/ imp'.writes > imp.writes)) =>
        /\ imp.pc = "loop"
        /\ imp.i > Len(imp.manifest.sources)
        /\ imp'.writes = 1

\* C10: import writes the registry file at most once per call, after every source
\* has been handled; a call that fails on the shared root or stops before that
\* write leaves the file as it was.
C10_SingleWriteAtEnd == [](C10_State) /\ [][C10_Step]_vars

\* C10 witness: the process stopped in the loop after a turn had added a source
\* to the list to save.
C10_Witness ==
    /\ imp.pc = "stopped"
    /\ imp.acc.added = 1
    /\ Len(imp.acc.updated_sources) = Len(registry) + 1

\* A string that is empty once trimmed: it holds nothing but whitespace.
Blank(s) == \A i \in 1..Len(s) : s[i] \in {" ", "\t"}

InvalidManifest(m) ==
    \/ m.schema # "reader-library-manifest"
    \/ m.version # 1
    \/ \E i \in 1..Len(m.sources) : Blank(m.sources[i].name) \/ Blank(m.sources[i].root_name)
    \/ \E i \in 1..Len(m.entries) :
          \/ Blank(m.entries[i].source_name)
          \/ Blank(m.entries[i].relative_path)
          \/ m.entries[i].entry_type \notin {ExtPdf, ExtEpub, ExtTxt}

\* C11: an import of a manifest whose schema or version is not the current one,
\* or that has a source with a blank name or rootName, or an entry with a blank
\* sourceName or relativePath or a type outside {pdf, epub, txt}, returns an
\* error, never reaches save_sources and leaves the registry as it was.
C11_InvalidManifestRejected ==
    (last.op = "import" /\ InvalidManifest(last.manifest))
        => /\ ~last.res.ok
           /\ last.res.err \in {"Unsupported library manifest format",
                                "Invalid manifest source entry",
                                "Invalid manifest content entry"}
           /\ ~last.saved
           /\ registry = last.pre

\* An import of a manifest with a blank field, with a shared root under which
\* its folder exists, is refused while the registry holds another source.
C11_Witness ==
    /\ last.op = "import"
    /\ last.manifest.schema = LIBRARY_MANIFEST_SCHEMA
    /\ last.manifest.version = LIBRARY_MANIFEST_VERSION
    /\ InvalidManifest(last.manifest)
    /\ last.path = pLib
    /\ registry # <<>>
    /\ ~last.res.ok

\* C17: the title of an opened book is the file stem of the requested file with
\* every underscore and every hyphen replaced by a space.
C17_TitleReplacesBoth ==
    (last.op = "open" /\ last.res.ok)
        => last.res.value.title =
               ReplaceChar(ReplaceChar(FileStem(last.path), "_", " "), "-", " ")

\* C18: the sourcePath of an opened book is the path string the caller asked
\* for, also for a relative path, a path through a link and a pdf or epub
\* served from its .txt snapshot.
C18_SourcePathEchoed ==
    (last.op = "open" /\ last.res.ok)
        => last.res.value.source_path = PathString(last.path)

\* The registry is what load_sources reads from the file.
RegistryIsFile == registry = read_sources(sourcesFile)

\* No save_sources is between its File::create and the end of its write_all.
NoWriteInProgress == \A t \in Threads : writers[t].pc \notin {"create", "write"}

\* C19: registry mutations load the whole registry and replace the whole file
\* without a lock; when two of them interleave, the file holds one complete
\* list written by a single call and the registry is the list written last
\* (stated here for the moments when no write is in progress).
C19_LastWriterWins ==
    (NoWriteInProgress /\ lastWrite.some)
        => /\ sourcesFile = to_string_pretty(lastWrite.list)
           /\ registry = lastWrite.list

\* The one key id of the allow-list.
GeminiKey == "comprehension-gemini"

\* An absent, empty or whitespace-only value.
BlankValue(v) == ~v.some \/ Blank(v.str)

\* The call before this one was a successful set of value v under the allowed key.
AfterSetOf(v) ==
    /\ keyCall.before.op = "set"
    /\ keyCall.before.key_id = GeminiKey
    /\ keyCall.before.ok
    /\ keyCall.before.value = v

\* C12: under the allowed key and while the secret service answers,
\*  a set of an absent, empty or blank value deletes the entry, and the get that
\*  follows returns absent; no stored password is ever empty or blank;
\*  a set of absent on a key with no entry returns success;
\*  the get that follows a set of a non-blank value returns it trimmed.
C12_SetThenGet ==
    /\ (keyCall.op = "set" /\ keyCall.key_id = GeminiKey /\ keyCall.res.ok
           /\ BlankValue(keyCall.value))
          => ~keyring[GeminiKey].some
    /\ \A k \in KeyIds : keyring[k].some => ~Blank(keyring[k].str)
    /\ (keyCall.op = "set" /\ keyCall.key_id = GeminiKey /\ keyCall.up
           /\ ~keyCall.value.some /\ ~keyCall.pre[GeminiKey].some)
          => keyCall.res.ok
    /\ \A v \in KeyValues :
          (keyCall.op = "get" /\ keyCall.key_id = GeminiKey /\ keyCall.up /\ AfterSetOf(v))
            => keyCall.res = Ok(IF BlankValue(v) THEN NoStr ELSE SomeStr(Trim(v.str)))

\* A get right after the set of a blank value that deleted a stored key.
C12_Witness ==
    /\ keyCall.op = "get"
    /\ keyCall.key_id = GeminiKey
    /\ keyCall.up
    /\ AfterSetOf(SomeStr(<<"\t", " ">>))
    /\ keyCall.res = Ok(NoStr)

\* C13: a get or set with a key id outside the allow-list fails with the
\* unknown-key error without a call to the secret service, and no call reads,
\* writes or deletes an entry under another account than the allowed one.
C13_UnknownKeyRefused ==
    /\ (keyCall.op \in {"get", "set"} /\ keyCall.key_id # GeminiKey)
          => /\ keyCall.res = Err("Unsupported API key id")
             /\ keyCall.ops = <<>>
             /\ keyring = keyCall.pre
    /\ \A i \in 1..Len(keyCall.ops) : keyCall.ops[i].account = GeminiKey
    /\ \A k \in KeyIds \ {GeminiKey} : ~keyring[k].some

\* A set of a key under an id that differs from the allowed one by a trailing
\* space, refused while the allowed key holds a value.
C13_Witness ==
    /\ keyCall.op = "set"
    /\ keyCall.key_id = "comprehension-gemini "
    /\ keyCall.value = SomeStr(<<"k">>)
    /\ keyCall.up
    /\ keyring[GeminiKey].some
    /\ ~keyCall.res.ok

\* C14 as stated: once a key is in the corpus cache, no step replaces or removes
\* its value, also when two first requests for the key overlap.
C14_PopulatedKeyKeepsValue ==
    [][\A k \in CorpusKeys :
          corpus_cache[k].some => corpus_cache'[k] = corpus_cache[k]]_vars

\* The thread is in the part of ensure_corpus_loaded that loads the file.
LoadingFile(w) == w.pc \in {"find", "read", "relock", "insert"}

\* The value under key k changes only by the insert of a thread whose check
\* had found the key not cached, and becomes the list that thread read.
ReplacedByMissedLoad(k) ==
    \/ corpus_cache'[k] = corpus_cache[k]
    \/ \E t \in Threads :
          /\ workers[t].pc = "insert"
          /\ workers[t].miss
          /\ KeyOf(workers[t]) = k
          /\ corpus_cache'[k] = SomeArticles(workers[t].articles)

\* C14, amended: a key in the cache is never removed; a call that finds it
\* cached does not load the file; its list is replaced only by the insert of a
\* first request that had checked the cache before the key was there.
C14_OnlyMissedLoadReplaces ==
    /\ [](\A t \in Threads : LoadingFile(workers[t]) => workers[t].miss)
    /\ [][\A k \in CorpusKeys :
            corpus_cache[k].some => (corpus_cache'[k].some /\ ReplacedByMissedLoad(k))]_vars

\* Two first requests overlapped: the second insert put another list under the
\* key than the first, and a later call found the key cached.
C14_Witness ==
    /\ Len(inserts) = 2
    /\ inserts[1].key = inserts[2].key
    /\ inserts[1].list # inserts[2].list
    /\ corpus_cache[inserts[2].key] = SomeArticles(inserts[2].list)
    /\ \E t \in Threads :
          /\ workers[t].pc = "ensured"
          /\ KeyOf(workers[t]) = inserts[2].key
          /\ ~workers[t].miss

\* C15: ensure_corpus_loaded returns false only when no candidate directory
\* holds a corpus file for the family and tier at that moment; when a file is
\* found, the parsed list is cached under the key and the call returns true.
C15_FalseOnlyWithoutFile ==
    [][\A t \in Threads :
          /\ (workers[t].pc # "ensured" /\ workers'[t].pc = "ensured"
                 /\ ~workers'[t].available)
                => ~find_corpus_path(workers[t].family, workers[t].tier).some
          /\ (workers[t].pc = "insert" /\ workers'[t].pc = "ensured")
                => /\ workers'[t].available
                   /\ corpus_cache'[KeyOf(workers[t])] = SomeArticles(workers[t].articles)]_vars

\* The lines that hold an article and nothing else but whitespace around it.
IsArticleText(line) == \E x \in {"a", "b"} : Trim(line) = ArticleLine(x)

\* The articles of the well-formed lines, in the order of the file.
WellFormedOf(lines) ==
    LET kept == SelectSeq(lines, IsArticleText)
    IN [i \in 1..Len(kept) |-> CorpusArticle(Trim(kept[i])[2])]

\* The thread's corpus_sample_article returns in this step.
SampleReturns(t) ==
    workers[t].cmd = "sample" /\ workers[t].pc # "done" /\ workers'[t].pc = "done"

\* What corpus_sample_article may return when the list under the key is got:
\* absent for no list or an empty one, else one of its elements.
SampledFrom(ret, got) ==
    IF ~got.some \/ got.list = <<>> THEN ret = Ok(NoArticle)
    ELSE /\ ret.ok
         /\ ret.value.some
         /\ \E i \in 1..Len(got.list) : got.list[i] = ret.value.article

EnsureDone(w) == w.cmd # "none" /\ w.pc \in {"ensured", "pick", "done"}

\* Both threads ran ensure_corpus_loaded for the same key, one while the other
\* was loading it; both found the key not cached and both returned true.
RacedFirstRequests(t, u) ==
    /\ t # u
    /\ EnsureDone(workers[t]) /\ EnsureDone(workers[u])
    /\ KeyOf(workers[t]) = KeyOf(workers[u])
    /\ workers[t].miss /\ workers[u].miss
    /\ workers[u].raced
    /\ workers[t].available /\ workers[u].available

\* No thread holds the cache lock while it looks for or reads the file, and
\* once two overlapping first requests have returned true the key holds the
\* list inserted last.
LockFreeLoadLastInsertWins ==
    /\ \A t \in Threads : workers[t].pc \in {"find", "read"} => lock # t
    /\ \A t, u \in Threads :
          RacedFirstRequests(t, u)
             => /\ inserts # <<>>
                /\ corpus_cache[KeyOf(workers[t])] =
                       SomeArticles(inserts[Len(inserts)].list)

\* The thread's ensure_corpus_loaded returns in this step; its check had found
\* the key not cached while the other thread was loading the same key, or the
\* other thread is doing so now.
RacedEnsureReturns(t) ==
    /\ workers[t].pc # "ensured"
    /\ workers'[t].pc = "ensured"
    /\ workers[t].miss
    /\ workers[t].raced \/ Loading(t)

\* C20: when two ensure_corpus_loaded calls for the same key not yet cached
\* overlap and a corpus file exists, both return available=true, the cache
\* lock is not held while either looks for or reads the file, and once both
\* have returned the key holds the list inserted last.
C20_BenignRace ==
    /\ []LockFreeLoadLastInsertWins
    /\ [][\A t \in Threads :
            (RacedEnsureReturns(t)
               /\ find_corpus_path(workers[t].family, workers[t].tier).some)
              => workers'[t].available]_vars

(***************************************************************************)
(* Import: resolution of the sources                                       *)
(***************************************************************************)

\* The last call was an import that returned its summary.
ImportReturned == last.op = "import" /\ last.res.ok

\* The shared root of the last import, as the import canonicalized it.
SharedRootOf == normalize_path(last.path).path

\* sharedRoot/rootName for the i-th source of the imported manifest.
NamedFolder(i) == PathJoin(SharedRootOf, ParsePath(last.manifest.sources[i].root_name))

\* The two paths lead to the same place.
SamePlace(p, q) == Canonicalize(p).ok /\ Canonicalize(p) = Canonicalize(q)

\* The i-th source of the last import was left unresolved.
Unresolved(i) ==
    LET r == last.res.value.results[i]
    IN /\ ~r.resolved_path.ok
       /\ r.status = "missing"
       /\ r.message.text = "Missing folder under shared root"

\* C21: every source of a successful import is resolved by precedence: to
\* sharedRoot/rootName when that is a directory (whatever the number of
\* sources); otherwise to the shared root itself when the manifest has exactly
\* one source; otherwise it is unresolved. No source of a manifest with two or
\* more sources is resolved to the shared root by the fallback.
C21_ResolvedByPrecedence ==
    ImportReturned =>
        /\ Len(last.res.value.results) = Len(last.manifest.sources)
        /\ \A i \in 1..Len(last.manifest.sources) :
              LET r == last.res.value.results[i]
              IN IF is_directory(NamedFolder(i))
                 THEN r.resolved_path.ok /\ SamePlace(r.resolved_path.path, NamedFolder(i))
                 ELSE IF Len(last.manifest.sources) = 1
                 THEN r.resolved_path = SomePath(SharedRootOf)
                 ELSE Unresolved(i)

\* An import of a single source whose named folder is not under the shared
\* root resolved the source to the shared root and added it.
C21_Witness ==
    /\ ImportReturned
    /\ Len(last.manifest.sources) = 1
    /\ ~is_directory(NamedFolder(1))
    /\ last.res.value.results[1].resolved_path = SomePath(SharedRootOf)
    /\ last.res.value.results[1].status = "added"

(***************************************************************************)
(* Import: the presence check                                              *)
(***************************************************************************)

\* The manifest entries of the i-th source of the last import.
EntriesFor(i) ==
    SelectSeq(last.manifest.entries,
              LAMBDA entry : entry.source_name = last.manifest.sources[i].name)

\* The components never climb above the folder they start from.
RECURSIVE StaysBelow(_, _)
StaysBelow(segs, depth) ==
    IF segs = <<>> THEN TRUE
    ELSE IF Head(segs) = DotDot THEN depth > 0 /\ StaysBelow(Tail(segs), depth - 1)
    ELSE StaysBelow(Tail(segs), depth + 1)

\* A relativePath that names a place inside the folder it is joined to.
StaysInside(relative_path) ==
    LET p == ParsePath(relative_path) IN ~p.abs /\ StaysBelow(p.segs, 0)

\* The entry names an existing file inside the folder.
FoundInside(folder, entry) ==
    /\ StaysInside(entry.relative_path)
    /\ PathExists(PathJoin(folder, ParsePath(entry.relative_path)))

\* The i-th source of the last import went past the presence check.
PassedCheck(i) == last.res.value.results[i].status \in {"added", "existing"}

\* C23: a source that has manifest entries passes the presence check of an
\* import only if one of its entries names an existing file inside the resolved
\* folder: an entry whose relativePath is absolute or climbs out with ".."
\* does not make the source pass.
C23_PresenceInsideFolder ==
    ImportReturned =>
        \A i \in 1..Len(last.res.value.results) :
            (PassedCheck(i) /\ EntriesFor(i) # <<>>) =>
                \E k \in 1..Len(EntriesFor(i)) :
                    FoundInside(last.res.value.results[i].resolved_path.path,
                                EntriesFor(i)[k])

\* The i-th source of the last import was resolved and has manifest entries,
\* none of which names an existing file inside the resolved folder.
NoEntryInside(i) ==
    LET r == last.res.value.results[i]
    IN /\ r.resolved_path.ok
       /\ EntriesFor(i) # <<>>
       /\ \A k \in 1..Len(EntriesFor(i)) :
              ~FoundInside(r.resolved_path.path, EntriesFor(i)[k])

\* The i-th source of the last import was reported missing for its files, and
\* the import added nothing for it.
MissingForFiles(i) ==
    LET r == last.res.value.results[i]
    IN /\ r.status = "missing"
       /\ r.message.text = "No manifest files found under resolved folder"
       /\ r.message.text # "Missing folder under shared root"

\* The resolved folder of the i-th source was registered before the import.
AlreadyRegistered(i) ==
    \E j \in 1..Len(last.pre) :
        normalize_path_for_compare(last.pre[j].path)
            = last.res.value.results[i].resolved_path.path

\* C22: a resolved source that has manifest entries, none of which exists under
\* the resolved folder, is reported missing with the message of the presence
\* check (not the missing-folder one) and is not added, also when its folder is
\* already registered.
C22_NoFileUnderFolderIsMissing ==
    ImportReturned =>
        \A i \in 1..Len(last.res.value.results) :
            NoEntryInside(i) => MissingForFiles(i)

\* The same with the existence test the import makes: the joined path exists.
\* None of the joined paths of the i-th source exists.
NoJoinedPathExists(i) ==
    LET r == last.res.value.results[i]
    IN /\ r.resolved_path.ok
       /\ EntriesFor(i) # <<>>
       /\ \A k \in 1..Len(EntriesFor(i)) :
              ~PathExists(PathJoin(r.resolved_path.path,
                                   ParsePath(EntriesFor(i)[k].relative_path)))

\* The presence check comes before the already-registered check, and a source
\* without entries skips it.
PresenceCheckFirst ==
    ImportReturned =>
        \A i \in 1..Len(last.res.value.results) :
            LET r == last.res.value.results[i]
            IN /\ NoJoinedPathExists(i) => MissingForFiles(i)
               /\ (r.resolved_path.ok /\ EntriesFor(i) = <<>>) =>
                      r.status \in {"added", "existing"}

\* A source whose folder was registered already was reported missing for its
\* files.
RegisteredButMissing ==
    /\ ImportReturned
    /\ \E i \in 1..Len(last.res.value.results) :
          NoJoinedPathExists(i) /\ AlreadyRegistered(i) /\ MissingForFiles(i)

(***************************************************************************)
(* Removal of a source                                                     *)
(***************************************************************************)

\* The two paths have the same compare-safe form.
SameIdentity(p, q) == normalize_path_for_compare(p) = normalize_path_for_compare(q)

\* The last call was library_remove_source.
Removal == last.op = "remove"

\* C24: library_remove_source(p) leaves in the registry exactly the entries
\* whose compare-safe form differs from that of p, in their order; an entry
\* whose stored path is p is removed also when its directory was deleted; and
\* when no entry has the compare-safe form of p the registry is as it was.
C24_RemovesByCompareSafeForm ==
    Removal =>
        /\ last.res.ok
        /\ registry = SelectSeq(last.pre, LAMBDA source : ~SameIdentity(source.path, last.path))
        /\ \A j \in 1..Len(registry) : registry[j].path # last.path
        /\ (\A j \in 1..Len(last.pre) : ~SameIdentity(last.pre[j].path, last.path))
              => registry = last.pre

\* A source whose directory was deleted has been removed by its stored path,
\* and another source stayed.
C24_Witness ==
    /\ Removal
    /\ last.path.segs \in removed
    /\ \E j \in 1..Len(last.pre) : last.pre[j].path = last.path
    /\ \A j \in 1..Len(registry) : registry[j].path # last.path
    /\ registry # <<>>

(***************************************************************************)
(* Import: the summary and the registry                                    *)
(***************************************************************************)

\* The positions of the results of the last import that report the status.
WithStatus(status) ==
    {i \in 1..Len(last.res.value.results) : last.res.value.results[i].status = status}

\* The results of the last import that report added, in order, as the registry
\* entries they stand for.
AddedEntries ==
    LET added == SelectSeq(last.res.value.results, LAMBDA r : r.status = "added")
    IN [k \in 1..Len(added) |->
           LibrarySource(added[k].source_name, added[k].resolved_path.path)]

\* C25: a successful import reports one result per manifest source, in manifest
\* order, each added, existing or missing; its three counters are the numbers
\* of results with that status and sum to the number of sources; and the
\* registry after it is the registry before it followed by one entry per added
\* result.
C25_SummaryMatchesRegistry ==
    ImportReturned =>
        LET sum == last.res.value
        IN /\ Len(sum.results) = Len(last.manifest.sources)
           /\ \A i \in 1..Len(sum.results) :
                 /\ sum.results[i].source_name = last.manifest.sources[i].name
                 /\ sum.results[i].status \in {"added", "existing", "missing"}
           /\ sum.added = Cardinality(WithStatus("added"))
           /\ sum.existing = Cardinality(WithStatus("existing"))
           /\ sum.missing = Cardinality(WithStatus("missing"))
           /\ sum.added + sum.existing + sum.missing = Len(last.manifest.sources)
           /\ Len(registry) = Len(last.pre) + sum.added
           /\ registry = last.pre \o AddedEntries

\* An import into a registry that had a source added one source and reported
\* another one missing.
C25_Witness ==
    /\ ImportReturned
    /\ last.pre # <<>>
    /\ WithStatus("added") # {}
    /\ WithStatus("missing") # {}

(***************************************************************************)
(* Access follows the registry                                             *)
(***************************************************************************)

\* The last call went through the guard right after a registry mutation.
GuardAfter(op) == GuardedCall /\ last.follows.op = op

\* The requested path exists and lies in the folder the source leads to.
UnderSource(p, source) ==
    /\ normalize_path(p).ok
    /\ normalize_path(source.path).ok
    /\ EqualOrBelow(normalize_path(p).path, normalize_path(source.path).path)

\* The entries of the first list whose path is no longer, or not yet, in the
\* second.
EntriesGone(from, to) ==
    {from[i] : i \in {j \in 1..Len(from) : \A k \in 1..Len(to) : to[k].path # from[j].path}}

\* The requested path lies under a root that the mutation before the call
\* removed, and under no root that is still registered.
UnderRemovedRootOnly ==
    /\ \E source \in EntriesGone(last.follows.pre, last.pre) : UnderSource(last.path, source)
    /\ \A i \in 1..Len(last.pre) : ~UnderSource(last.path, last.pre[i])

\* The requested path exists and lies under a root that the mutation before
\* the call added.
UnderAddedRoot ==
    \E source \in EntriesGone(last.pre, last.follows.pre) : UnderSource(last.path, source)

\* C26: the guard reads the registry as it is at the call. The call that comes
\* right after library_remove_source is refused for a path under the removed
\* root unless a root that is still registered contains it, and the call that
\* comes right after library_add_source or an import is let through for an
\* existing path under the root just added.
C26_AccessFollowsRegistry ==
    /\ (GuardAfter("remove") /\ UnderRemovedRootOnly) => ~GuardPassed
    /\ ((GuardAfter("add") \/ GuardAfter("import")) /\ UnderAddedRoot) => GuardPassed

\* A path that had been listed from a registered root was refused right after
\* the root was removed while another root stayed registered.
C26_Witness ==
    /\ GuardAfter("remove")
    /\ UnderRemovedRootOnly
    /\ last.pre # <<>>
    /\ last.res.err = "Path is outside configured library sources"

(***************************************************************************)
(* An unavailable corpus is not remembered                                 *)
(***************************************************************************)

\* The thread's ensure_corpus_loaded returns in this step.
EnsureReturns(t) == workers[t].pc # "ensured" /\ workers'[t].pc = "ensured"

\* Every key of the cache was put there by an insert, which is the last
\* statement of a call that returns true.
CachedOnlyByLoad ==
    \A k \in CorpusKeys :
        corpus_cache[k].some => \E i \in 1..Len(inserts) : inserts[i].key = k

\* A call that returns false leaves the cache as it was.
FalseLeavesCache(t) ==
    (EnsureReturns(t) /\ ~workers'[t].available) => corpus_cache' = corpus_cache

\* A call that found the key not cached and returns while a corpus file for
\* the key exists has cached a list and returns true.
LoadsFileThatAppeared(t) ==
    (EnsureReturns(t) /\ workers[t].miss
        /\ find_corpus_path(workers[t].family, workers[t].tier).some)
      => /\ workers'[t].available
         /\ corpus_cache'[KeyOf(workers[t])].some

\* The part of C27 that does not depend on the file being readable.
UnavailableLeavesCacheAlone ==
    /\ []CachedOnlyByLoad
    /\ [][\A t \in Threads : FalseLeavesCache(t)]_vars

\* C27: a call of ensure_corpus_loaded that returns false inserts nothing in
\* the cache; a key is in the cache only if a call inserted it and returned
\* true; and a call for a key not cached, made when a corpus file for it is
\* there, caches it and returns true.
C27_UnavailableNotMemoized ==
    /\ []CachedOnlyByLoad
    /\ [][\A t \in Threads : FalseLeavesCache(t) /\ LoadsFileThatAppeared(t)]_vars

====
